---- MODULE Spec2Model ----
(***************************************************************************)
(* A model of the text-rewriting core of confluence2md                     *)
(* (src/converter/markdown.go): balanceDetailsTags, the tail of            *)
(* postProcessMarkdown, and decodeHTMLEntities.                            *)
(*                                                                         *)
(* A Go string is modelled as a sequence of one-character strings.  All    *)
(* texts of the model are ASCII, so byte offsets and character offsets     *)
(* agree.  Offsets handed around by the helpers are 0-based, as in Go;     *)
(* -1 is "not found".                                                      *)
(***************************************************************************)
EXTENDS Integers, Sequences, FiniteSets, TLC

VARIABLES
    entry,   \* the function under execution: its name
    pc,      \* the position inside it
    input,   \* the argument it was called with
    md,      \* the local `md` of postProcessMarkdown / balanceDetailsTags
    iters,   \* how many deletions the balanceDetailsTags loop has made
    html,    \* the local `html` of decodeHTMLEntities
    todo,    \* the keys the running `range` over a map has not yet visited
    call,    \* decodeHTMLEntities: 1 in the call on the input, 2 in the call on its result
    first,   \* decodeHTMLEntities: what the first call returned
    divOpenCount,   \* preProcessHTML: its local openCount
    divCloseCount,  \* preProcessHTML: its local closeCount
    file,           \* the file at `filepath`: whether it opens, its lines, where reading fails
    scanned,        \* IsConfluenceMIME: how many lines `scanner` has handed out
    scanErr,        \* IsConfluenceMIME: what scanner.Err() returns
    lineCount,      \* IsConfluenceMIME: its local lineCount
    hasDateHeader,           \* IsConfluenceMIME: its local of this name
    hasMIMEVersion,          \* IsConfluenceMIME: its local of this name
    hasConfluenceSubject,    \* IsConfluenceMIME: its local of this name
    result,         \* what the function under execution returned
    msg,            \* ExtractHTMLFromMIME: the message in the file, as the parsers see it
    partsRead,      \* ExtractHTMLFromMIME: how many times mr.NextPart() was called
    world,          \* ConvertHTMLToMarkdown: the build and the machine it runs on
    stages,         \* ConvertHTMLToMarkdown: the stages run so far, in order
    elapsed,        \* ConvertHTMLToMarkdown: seconds since the call began
    proc,           \* ConvertHTMLToMarkdown: the state of the pandoc process
    extractOnce,    \* package pandoc: the sync.Once of this name
    extractedPath,  \* package pandoc: the variable of this name
    extractErr,     \* package pandoc: the variable of this name
    disk,           \* package pandoc: whether the extracted binary is on disk
    runs,           \* package pandoc: how many times extractBinary was entered
    gpc,            \* package pandoc: where each goroutine is in its call
    gret,           \* package pandoc: what each goroutine's last call returned
    gcalls,         \* package pandoc: how many calls each goroutine has made
    dryRun,           \* package main: the parameter of this name
    dir,              \* package main: the directory: whether the glob fails, and its .doc files
    outputs,          \* package main: the file at each input's output path
    attempts,         \* package main: how many times convertFile was called on each input
    matchIdx,         \* convertDirectory: the position of its first loop in `matches`
    confluenceFiles,  \* convertDirectory: its local of this name
    fileIdx,          \* convertDirectory: the position of its second loop in confluenceFiles
    successCount,     \* convertDirectory: its local of this name
    inputPath,        \* convertFile: the input it was called with (0: not called)
    steps             \* convertFile: the stages it has run, in order

\* The locals of preProcessHTML's div-balance repair.
preVars == <<divOpenCount, divCloseCount>>

\* The variables of the functions other than balanceDetailsTags,
\* postProcessMarkdown and decodeHTMLEntities.
\* The file, the scanner over it and the locals of IsConfluenceMIME.
mimeVars == <<file, scanned, scanErr, lineCount,
              hasDateHeader, hasMIMEVersion, hasConfluenceSubject>>

\* The message and the part counter of ExtractHTMLFromMIME.
extractVars == <<msg, partsRead>>

\* The surroundings and the course of a ConvertHTMLToMarkdown call.
convVars == <<world, stages, elapsed, proc>>

\* The state of package pandoc and of the goroutines calling it.
pandocVars == <<extractOnce, extractedPath, extractErr, disk, runs, gpc, gret, gcalls>>

\* The parameters, the files and the locals of convertDirectory and convertFile.
mainVars == <<dryRun, dir, outputs, attempts, matchIdx, confluenceFiles, fileIdx,
              successCount, inputPath, steps>>

rest == <<preVars, mimeVars, result, extractVars, convVars, pandocVars, mainVars>>

vars == <<entry, pc, input, md, iters, html, todo, call, first, rest>>

\* The values the locals of preProcessHTML have while another function runs.
PreIdle == divOpenCount = 0 /\ divCloseCount = 0

\* The same for every variable of `rest`.
\* No file, and the locals of IsConfluenceMIME as it declares them.
MimeIdle ==
    /\ file = [opens |-> FALSE, lines |-> << >>, failAt |-> -1, partial |-> FALSE]
    /\ scanned = 0
    /\ scanErr = "nil"
    /\ lineCount = 0
    /\ hasDateHeader = FALSE
    /\ hasMIMEVersion = FALSE
    /\ hasConfluenceSubject = FALSE

\* Nothing returned yet.
NoResult == [returned |-> FALSE]

\* No message.
ExtractIdle == msg = [opens |-> FALSE] /\ partsRead = 0

\* No conversion under way.
ConvIdle ==
    /\ world = [embedded |-> FALSE]
    /\ stages = << >>
    /\ elapsed = 0
    /\ proc = "none"

\* Package pandoc as it is initialized, and no goroutine calling it.
PandocIdle ==
    /\ extractOnce = [done |-> FALSE, m |-> 0]
    /\ extractedPath = ""
    /\ extractErr = "nil"
    /\ disk = FALSE
    /\ runs = 0
    /\ gpc = << >>
    /\ gret = << >>
    /\ gcalls = << >>

\* No directory and no call of package main.
MainIdle ==
    /\ dryRun = FALSE
    /\ dir = [globErr |-> FALSE, files |-> << >>]
    /\ outputs = << >>
    /\ attempts = << >>
    /\ matchIdx = 0
    /\ confluenceFiles = << >>
    /\ fileIdx = 0
    /\ successCount = 0
    /\ inputPath = 0
    /\ steps = << >>

RestIdle ==
    /\ PreIdle /\ MimeIdle /\ result = NoResult /\ ExtractIdle /\ ConvIdle /\ PandocIdle
    /\ MainIdle

----------------------------------------------------------------------------
(* Texts                                                                   *)

OpenTag == <<"<", "d", "e", "t", "a", "i", "l", "s", ">">>
CloseTag == <<"<", "/", "d", "e", "t", "a", "i", "l", "s", ">">>

\* The pieces the inputs of balanceDetailsTags are put together from: the two
\* markers, and the halves that make a marker when a close-marker between
\* them is deleted.
BalanceParts ==
    << OpenTag,
       CloseTag,
       <<"<">>,
       <<"/", "d", "e", "t", "a", "i", "l", "s", ">">>,
       <<"d", "e", "t", "a", "i", "l", "s", ">">>,
       <<"<", "/", "d", "e", "t">>,
       <<"a", "i", "l", "s", ">">>,
       <<"x">> >>

MaxBalanceParts == 4

\* Every concatenation of at most n members of the sequence `parts`.
RECURSIVE Texts(_, _)
Texts(parts, n) ==
    IF n = 0 THEN {<< >>}
    ELSE LET shorter == Texts(parts, n - 1)
         IN  shorter \cup {t \o parts[i] : t \in shorter, i \in DOMAIN parts}

----------------------------------------------------------------------------
(* Go's package strings                                                    *)

\* s[i:j] of Go (0-based, j exclusive).
Slice(s, i, j) == SubSeq(s, i + 1, j)

\* Whether sub occurs in s at 0-based offset i.
HasAt(s, sub, i) ==
    /\ i >= 0
    /\ i + Len(sub) <= Len(s)
    /\ \A k \in 1..Len(sub) : s[i + k] = sub[k]

\* strings.Index from offset `from` on: the offset of the first occurrence
\* at or after it, or -1.
RECURSIVE IndexFrom(_, _, _)
IndexFrom(s, sub, from) ==
    IF from + Len(sub) > Len(s) THEN -1
    ELSE IF HasAt(s, sub, from) THEN from
    ELSE IndexFrom(s, sub, from + 1)

\* strings.Contains
Contains(s, sub) == IndexFrom(s, sub, 0) # -1

\* strings.Count: the number of non-overlapping occurrences, scanning from
\* the left.
RECURSIVE CountFrom(_, _, _)
CountFrom(s, sub, from) ==
    LET i == IndexFrom(s, sub, from)
    IN  IF i = -1 THEN 0 ELSE 1 + CountFrom(s, sub, i + Len(sub))

StrCount(s, sub) == CountFrom(s, sub, 0)

\* strings.LastIndex: the offset of the last occurrence, or -1.
RECURSIVE LastIndexFrom(_, _, _)
LastIndexFrom(s, sub, from) ==
    IF from < 0 THEN -1
    ELSE IF HasAt(s, sub, from) THEN from
    ELSE LastIndexFrom(s, sub, from - 1)

LastIndex(s, sub) == LastIndexFrom(s, sub, Len(s) - Len(sub))

----------------------------------------------------------------------------
(* balanceDetailsTags                                                      *)

\* A slip in the slice: the length of the open-marker is skipped, one
\* character short, so the close-marker's ">" stays behind.
CutOpenTagLength(s, lastIdx) ==
    Slice(s, 0, lastIdx) \o Slice(s, lastIdx + Len(OpenTag), Len(s))

\* A slip in the slice: one character too many is skipped (cut short at
\* the end of the text).
CutCloseTagAndNext(s, lastIdx) ==
    Slice(s, 0, lastIdx)
        \o Slice(s, lastIdx + Len(CloseTag) + (IF lastIdx + Len(CloseTag) < Len(s) THEN 1 ELSE 0), Len(s))

\* md[:lastIdx] + md[lastIdx+len("</details>"):]
CutCloseTag(s, lastIdx) ==
    Slice(s, 0, lastIdx) \o Slice(s, lastIdx + Len(CloseTag), Len(s))

\* Where the loop's `break` leads: back into postProcessMarkdown, or out.
AfterBalance == IF entry = "postProcessMarkdown" THEN "emoji" ELSE "done"

\* The loop as it was before the recount: the closers are counted once and
\* the count is decremented after each deletion.
BalanceIterDecrement ==
    /\ pc = "balance"
    /\ LET openCount == StrCount(input, OpenTag)
           closeCount == StrCount(input, CloseTag) - iters
           lastIdx == LastIndex(md, CloseTag)
       IN  IF closeCount <= openCount \/ lastIdx = -1
           THEN /\ pc' = AfterBalance
                /\ UNCHANGED <<md, iters>>
           ELSE /\ md' = CutCloseTag(md, lastIdx)
                /\ iters' = iters + 1
                /\ pc' = "balance"
    /\ UNCHANGED <<entry, input, html, todo, call, first, rest>>

\* The loop with `<` for `<=` in the exit test: it goes on while the counts
\* are equal.
BalanceIterStrict ==
    /\ pc = "balance"
    /\ LET openCount == StrCount(md, OpenTag)
           closeCount == StrCount(md, CloseTag)
           lastIdx == LastIndex(md, CloseTag)
       IN  IF closeCount < openCount \/ lastIdx = -1
           THEN /\ pc' = AfterBalance
                /\ UNCHANGED <<md, iters>>
           ELSE /\ md' = CutCloseTag(md, lastIdx)
                /\ iters' = iters + 1
                /\ pc' = "balance"
    /\ UNCHANGED <<entry, input, html, todo, call, first, rest>>

\* The loop with strings.Index for strings.LastIndex: it deletes the
\* first close-marker.
BalanceIterLeftmost ==
    /\ pc = "balance"
    /\ LET openCount == StrCount(md, OpenTag)
           closeCount == StrCount(md, CloseTag)
           lastIdx == IndexFrom(md, CloseTag, 0)
       IN  IF closeCount <= openCount \/ lastIdx = -1
           THEN /\ pc' = AfterBalance
                /\ UNCHANGED <<md, iters>>
           ELSE /\ md' = CutCloseTag(md, lastIdx)
                /\ iters' = iters + 1
                /\ pc' = "balance"
    /\ UNCHANGED <<entry, input, html, todo, call, first, rest>>

\* One pass through the body of the `for` loop.
BalanceIter ==
    /\ pc = "balance"
    /\ LET openCount == StrCount(md, OpenTag)
           closeCount == StrCount(md, CloseTag)
           lastIdx == LastIndex(md, CloseTag)
       IN  IF closeCount <= openCount \/ lastIdx = -1
           THEN /\ pc' = AfterBalance
                /\ UNCHANGED <<md, iters>>
           ELSE /\ md' = CutCloseTag(md, lastIdx)
                /\ iters' = iters + 1
                /\ pc' = "balance"
    /\ UNCHANGED <<entry, input, html, todo, call, first, rest>>

InitBalance ==
    /\ entry = "balanceDetailsTags"
    /\ input \in Texts(BalanceParts, MaxBalanceParts)
    /\ md = input
    /\ pc = "balance"
    /\ iters = 0
    /\ html = << >>
    /\ todo = {}
    /\ call = 0
    /\ first = << >>
    /\ RestIdle

NextBalance == BalanceIter

SpecBalance == InitBalance /\ [][NextBalance]_vars

----------------------------------------------------------------------------
(* decodeHTMLEntities                                                      *)

\* The map literal, in the order of its lines; `range` visits its keys in an
\* order the language leaves open.
htmlEntityMap ==
    << [entity |-> <<"&", "l", "t", ";">>, char |-> "<"],
       [entity |-> <<"&", "g", "t", ";">>, char |-> ">"],
       [entity |-> <<"&", "a", "m", "p", ";">>, char |-> "&"],
       [entity |-> <<"&", "q", "u", "o", "t", ";">>, char |-> "\""],
       [entity |-> <<"&", "#", "3", "9", ";">>, char |-> "'"],
       [entity |-> <<"&", "a", "p", "o", "s", ";">>, char |-> "'"],
       [entity |-> <<"&", "#", "x", "2", "7", ";">>, char |-> "'"],
       [entity |-> <<"&", "#", "3", "4", ";">>, char |-> "\""],
       [entity |-> <<"&", "#", "6", "0", ";">>, char |-> "<"],
       [entity |-> <<"&", "#", "6", "2", ";">>, char |-> ">"],
       [entity |-> <<"&", "#", "3", "8", ";">>, char |-> "&"],
       [entity |-> <<"&", "n", "b", "s", "p", ";">>, char |-> " "] >>

maxASCIICodePoint == 127

\* The largest value strconv.ParseInt returns for bitSize 32.
MaxInt32 == 2147483647

LtEntity == <<"&", "l", "t", ";">>
NumericPrefix == <<"&", "#">>
HexPrefix == <<"&", "#", "x">>
DecPrefix == <<"&", "#">>

\* [0-9] and [0-9a-fA-F] of the two patterns.
DecDigits == {"0", "1", "2", "3", "4", "5", "6", "7", "8", "9"}
HexDigits == DecDigits \cup {"a", "b", "c", "d", "e", "f", "A", "B", "C", "D", "E", "F"}

DigitValue(c) ==
    CASE c = "0" -> 0 [] c = "1" -> 1 [] c = "2" -> 2 [] c = "3" -> 3
      [] c = "4" -> 4 [] c = "5" -> 5 [] c = "6" -> 6 [] c = "7" -> 7
      [] c = "8" -> 8 [] c = "9" -> 9
      [] c \in {"a", "A"} -> 10 [] c \in {"b", "B"} -> 11
      [] c \in {"c", "C"} -> 12 [] c \in {"d", "D"} -> 13
      [] c \in {"e", "E"} -> 14 [] c \in {"f", "F"} -> 15

\* strconv.ParseInt(digits, base, 32) on a non-empty run of digits of the
\* base: the value, or a range error (with the largest value) when it does
\* not fit 32 bits.  acc*base + d > MaxInt32 is tested without forming it.
RECURSIVE ParseIntFrom(_, _, _, _)
ParseIntFrom(digits, base, i, acc) ==
    IF i > Len(digits) THEN [val |-> acc, err |-> FALSE]
    ELSE LET d == DigitValue(digits[i])
         IN  IF acc > (MaxInt32 - d) \div base
             THEN [val |-> MaxInt32, err |-> TRUE]
             ELSE ParseIntFrom(digits, base, i + 1, acc * base + d)

ParseInt(digits, base) == ParseIntFrom(digits, base, 1, 0)

PrintableASCII ==
    << " ", "!", "\"", "#", "$", "%", "&", "'", "(", ")",
       "*", "+", ",", "-", ".", "/", "0", "1", "2", "3",
       "4", "5", "6", "7", "8", "9", ":", ";", "<", "=",
       ">", "?", "@", "A", "B", "C", "D", "E", "F", "G",
       "H", "I", "J", "K", "L", "M", "N", "O", "P", "Q",
       "R", "S", "T", "U", "V", "W", "X", "Y", "Z", "[",
       "\\", "]", "^", "_", "\\96", "a", "b", "c", "d", "e",
       "f", "g", "h", "i", "j", "k", "l", "m", "n", "o",
       "p", "q", "r", "s", "t", "u", "v", "w", "x", "y",
       "z", "{", "|", "}", "~" >>

\* string(rune(val)) for 0 < val < 127: the one character with that code
\* (a control character, and the grave accent, which a string of this
\* language cannot hold, are written by their codes).
Rune(val) ==
    IF val >= 32 /\ val <= 126 THEN PrintableASCII[val - 31]
    ELSE IF val = 9 THEN "\t"
    ELSE IF val = 10 THEN "\n"
    ELSE "\\" \o ToString(val)

\* strings.ReplaceAll, for a non-empty old: the occurrences found scanning
\* from the left, none overlapping another.
RECURSIVE ReplaceAllFrom(_, _, _, _)
ReplaceAllFrom(s, old, new, from) ==
    LET i == IndexFrom(s, old, from)
    IN  IF i = -1 THEN Slice(s, from, Len(s))
        ELSE Slice(s, from, i) \o new \o ReplaceAllFrom(s, old, new, i + Len(old))

ReplaceAll(s, old, new) == ReplaceAllFrom(s, old, new, 0)

\* The offset behind the longest run of characters of `class` that starts
\* at offset i.
RECURSIVE RunEnd(_, _, _)
RunEnd(s, class, i) ==
    IF i < Len(s) /\ s[i + 1] \in class THEN RunEnd(s, class, i + 1) ELSE i

\* Where a match of  prefix class+ ;  that starts at offset i ends, or -1.
\* The run of digits is taken whole: no character of the class is a ";".
RefEnd(s, prefix, class, i) ==
    LET j == RunEnd(s, class, i + Len(prefix))
    IN  IF HasAt(s, prefix, i) /\ j > i + Len(prefix) /\ j < Len(s) /\ s[j + 1] = ";"
        THEN j + 1
        ELSE -1

\* The condition under which the code point is a decodable one, with the range
\* test off by one at the top.
DecodableUpTo127(parsed) ==
    ~parsed.err /\ parsed.val > 0 /\ parsed.val <= maxASCIICodePoint

\* err == nil && val > 0 && val < maxASCIICodePoint
Decodable(parsed) ==
    ~parsed.err /\ parsed.val > 0 /\ parsed.val < maxASCIICodePoint

\* The function literal handed to ReplaceAllStringFunc: what a match with
\* the digits `digits` is replaced by.
DecodeMatch(match, digits, base) ==
    LET parsed == ParseInt(digits, base)
    IN  IF Decodable(parsed) THEN <<Rune(parsed.val)>> ELSE match

\* ReplaceAllStringFunc for the pattern  prefix class+ ;  from offset `from`
\* on: the leftmost match, then the leftmost behind it, and so on.
RECURSIVE ReplaceRefsFrom(_, _, _, _, _)
ReplaceRefsFrom(s, prefix, class, base, from) ==
    IF from >= Len(s) THEN << >>
    ELSE LET end == RefEnd(s, prefix, class, from)
         IN  IF end = -1
             THEN <<s[from + 1]>> \o ReplaceRefsFrom(s, prefix, class, base, from + 1)
             ELSE DecodeMatch(Slice(s, from, end),
                              Slice(s, from + Len(prefix), end - 1), base)
                     \o ReplaceRefsFrom(s, prefix, class, base, end)

\* hexEntityPattern.ReplaceAllStringFunc(html, ...)
DecodeHexRefs(s) == ReplaceRefsFrom(s, HexPrefix, HexDigits, 16, 0)

\* decEntityPattern.ReplaceAllStringFunc(html, ...)
DecodeDecRefs(s) == ReplaceRefsFrom(s, DecPrefix, DecDigits, 10, 0)

\* The pieces the inputs of decodeHTMLEntities are put together from.
\* Entities of the table, escaped once more or not, and what an "&" decoded
\* from "&#x26;" joins with:
EntityParts ==
    << <<"&", "l", "t", ";">>,
       <<"&", "a", "m", "p", ";", "l", "t", ";">>,
       <<"&", "a", "m", "p", ";", "#", "6", "0", ";">>,
       <<"&", "a", "m", "p", ";", "a", "m", "p", ";">>,
       <<"&", "g", "t", ";">>,
       <<"&", "#", "x", "2", "6", ";">>,
       <<"l", "t", ";">>,
       <<"#", "6", "0", ";">> >>

\* Numeric references at the ASCII bound, above it, of value 0, beyond 32
\* bits (2^32 + 65), and malformed (no ";", no digits):
NumericParts ==
    << <<"&", "#", "1", "2", "6", ";">>,
       <<"&", "#", "1", "2", "7", ";">>,
       <<"&", "#", "1", "2", "8", ";">>,
       <<"&", "#", "2", "0", "0", ";">>,
       <<"&", "#", "x", "C", "8", ";">>,
       <<"&", "#", "x", "7", "E", ";">>,
       <<"&", "#", "0", ";">>,
       <<"&", "#", "4", "2", "9", "4", "9", "6", "7", "3", "6", "1", ";">>,
       <<"&", "#", "1", "2">>,
       <<"&", "#", "x", ";">> >>

MaxEntityParts == 2
MaxNumericParts == 2

\* A narrower fast path: only a text without any "&" is returned as it is.
NoAmpersand(s) == ~Contains(s, <<"&">>)

\* The fast path: the input holds neither "&lt;" nor "&#".
NothingToDecode(s) == ~Contains(s, LtEntity) /\ ~Contains(s, NumericPrefix)

\* The function without its fast path: every call sets out on the range.
DecodeEnterAlways ==
    /\ pc = "decode"
    /\ pc' = "table"
    /\ todo' = DOMAIN htmlEntityMap
    /\ UNCHANGED <<entry, input, md, iters, html, call, first, rest>>

\* The function is entered: it returns its argument at once, or sets out
\* on the range over htmlEntityMap.
DecodeEnter ==
    /\ pc = "decode"
    /\ IF NothingToDecode(html)
       THEN pc' = "return" /\ todo' = {}
       ELSE pc' = "table" /\ todo' = DOMAIN htmlEntityMap
    /\ UNCHANGED <<entry, input, md, iters, html, call, first, rest>>

\* One iteration of the range over htmlEntityMap, for a key not yet visited.
DecodeEntity ==
    /\ pc = "table"
    /\ \E k \in todo :
          /\ html' = ReplaceAll(html, htmlEntityMap[k].entity, <<htmlEntityMap[k].char>>)
          /\ todo' = todo \ {k}
    /\ UNCHANGED <<entry, pc, input, md, iters, call, first, rest>>

\* The range is over: the hexadecimal references are decoded.
DecodeHex ==
    /\ pc = "table"
    /\ todo = {}
    /\ html' = DecodeHexRefs(html)
    /\ pc' = "decimal"
    /\ UNCHANGED <<entry, input, md, iters, todo, call, first, rest>>

\* The decimal references are decoded, and the function returns.
DecodeDec ==
    /\ pc = "decimal"
    /\ html' = DecodeDecRefs(html)
    /\ pc' = "return"
    /\ UNCHANGED <<entry, input, md, iters, todo, call, first, rest>>

\* The result of the first call is handed to a second call.
DecodeAgain ==
    /\ pc = "return"
    /\ call = 1
    /\ first' = html
    /\ call' = 2
    /\ pc' = "decode"
    /\ UNCHANGED <<entry, input, md, iters, html, todo, rest>>

\* decodeHTMLEntities is called with `text`.
InitDecodeWith(texts) ==
    /\ entry = "decodeHTMLEntities"
    /\ input \in texts
    /\ html = input
    /\ pc = "decode"
    /\ todo = {}
    /\ call = 1
    /\ first = << >>
    /\ md = << >>
    /\ iters = 0
    /\ RestIdle

NextDecode ==
    \/ DecodeEnter
    \/ DecodeEntity
    \/ DecodeHex
    \/ DecodeDec

\* One call, on a text of entities.
InitDecode == InitDecodeWith(Texts(EntityParts, MaxEntityParts))
SpecDecode == InitDecode /\ [][NextDecode]_vars

\* One call, on a text of numeric references.
InitNumeric == InitDecodeWith(Texts(NumericParts, MaxNumericParts))
SpecNumeric == InitNumeric /\ [][NextDecode]_vars

\* A call on a text of entities, and a second call on what it returned.
NextDecodeTwice ==
    \/ DecodeEnter
    \/ DecodeEntity
    \/ DecodeHex
    \/ DecodeDec
    \/ DecodeAgain

SpecDecodeTwice == InitDecode /\ [][NextDecodeTwice]_vars

----------------------------------------------------------------------------
(* postProcessMarkdown                                                     *)
(*                                                                         *)
(* The texts of this part of the model are written with the characters of  *)
(* PostParts.  The rewrite rules of the function that need another         *)
(* character to match (a quote, "=", "&", a backslash, "-", a grave        *)
(* accent, or one of the tag names img, span, a, u, br, summary and an     *)
(* opening "<div") find nothing in such a text and leave it as it is; the  *)
(* rules that can match are the ones for the closing "</div>", the         *)
(* whitespace normalisation, balanceDetailsTags and the emoji shortcodes.  *)

CloseDiv == <<"<", "/", "d", "i", "v", ">">>
Newline == <<"\n">>

\* \s of the patterns: [\t\n\f\r ].
RegexpSpace == {" ", "\t", "\n", "\f", "\r"}

\* The white space strings.TrimSpace cuts, as far as ASCII goes: \s and the
\* vertical tab.
UnicodeSpace == RegexpSpace \cup {Rune(11)}

\* The map literal, one glyph a sequence of its code points; `range` visits
\* its keys in an order the language leaves open.
textEmojis ==
    << [code |-> <<":", "c", "e", "l", "e", "b", "r", "a", "t", "i", "o", "n", ":">>,
        emoji |-> <<"U+1F389">>],
       [code |-> <<":", "t", "h", "u", "m", "b", "s", "u", "p", ":">>,
        emoji |-> <<"U+1F44D">>],
       [code |-> <<":", "t", "h", "u", "m", "b", "s", "d", "o", "w", "n", ":">>,
        emoji |-> <<"U+1F44E">>],
       [code |-> <<":", "c", "h", "e", "c", "k", ":">>,
        emoji |-> <<"U+2705">>],
       [code |-> <<":", "c", "r", "o", "s", "s", ":">>,
        emoji |-> <<"U+274C">>],
       [code |-> <<":", "w", "a", "r", "n", "i", "n", "g", ":">>,
        emoji |-> <<"U+26A0", "U+FE0F">>],
       [code |-> <<":", "i", "n", "f", "o", ":">>,
        emoji |-> <<"U+2139", "U+FE0F">>],
       [code |-> <<":", "q", "u", "e", "s", "t", "i", "o", "n", ":">>,
        emoji |-> <<"U+2753">>],
       [code |-> <<":", "s", "t", "a", "r", ":">>,
        emoji |-> <<"U+2B50">>],
       [code |-> <<":", "f", "i", "r", "e", ":">>,
        emoji |-> <<"U+1F525">>],
       [code |-> <<":", "r", "o", "c", "k", "e", "t", ":">>,
        emoji |-> <<"U+1F680">>],
       [code |-> <<":", "s", "p", "a", "r", "k", "l", "e", "s", ":">>,
        emoji |-> <<"U+2728">>] >>

\* Where a match of  (</div>\s*){n}  that starts at offset i ends, or -1.
\* Each \s* takes its whole run: a "</div>" does not begin with white space.
RECURSIVE DivRunEnd(_, _, _)
DivRunEnd(s, i, n) ==
    IF n = 0 THEN i
    ELSE IF HasAt(s, CloseDiv, i)
         THEN DivRunEnd(s, RunEnd(s, RegexpSpace, i + Len(CloseDiv)), n - 1)
         ELSE -1

\* ReplaceAllString for  (</div>\s*){n}  from offset `from` on.
RECURSIVE ReplaceDivRunsFrom(_, _, _, _)
ReplaceDivRunsFrom(s, n, new, from) ==
    IF from >= Len(s) THEN << >>
    ELSE LET end == DivRunEnd(s, from, n)
         IN  IF end = -1
             THEN <<s[from + 1]>> \o ReplaceDivRunsFrom(s, n, new, from + 1)
             ELSE new \o ReplaceDivRunsFrom(s, n, new, end)

\* regexp `\n{3,}` replaced by "\n\n", from offset `from` on.
RECURSIVE CollapseNewlinesFrom(_, _)
CollapseNewlinesFrom(s, from) ==
    IF from >= Len(s) THEN << >>
    ELSE LET end == RunEnd(s, {"\n"}, from)
         IN  IF end - from >= 3
             THEN <<"\n", "\n">> \o CollapseNewlinesFrom(s, end)
             ELSE <<s[from + 1]>> \o CollapseNewlinesFrom(s, from + 1)

\* strings.Split(s, "\n"), from offset `from` on: the pieces between the
\* newlines, one more than there are newlines.
RECURSIVE SplitLinesFrom(_, _)
SplitLinesFrom(s, from) ==
    LET i == IndexFrom(s, Newline, from)
    IN  IF i = -1 THEN <<Slice(s, from, Len(s))>>
        ELSE <<Slice(s, from, i)>> \o SplitLinesFrom(s, i + 1)

\* strings.TrimRight(line, cutset)
RECURSIVE TrimRight(_, _)
TrimRight(line, cutset) ==
    IF line # << >> /\ line[Len(line)] \in cutset
    THEN TrimRight(SubSeq(line, 1, Len(line) - 1), cutset)
    ELSE line

\* strings.TrimLeft(line, cutset)
RECURSIVE TrimLeft(_, _)
TrimLeft(line, cutset) ==
    IF line # << >> /\ Head(line) \in cutset THEN TrimLeft(Tail(line), cutset) ELSE line

\* strings.TrimSpace
TrimSpace(s) == TrimLeft(TrimRight(s, UnicodeSpace), UnicodeSpace)

\* strings.Join(lines, "\n")
RECURSIVE JoinLines(_)
JoinLines(lines) ==
    IF Len(lines) = 1 THEN lines[1]
    ELSE lines[1] \o Newline \o JoinLines(Tail(lines))

\* lines[i] = strings.TrimRight(line, " \t") for every line.
TrimLines(s) ==
    LET lines == SplitLinesFrom(s, 0)
    IN  JoinLines([i \in DOMAIN lines |-> TrimRight(lines[i], {" ", "\t"})])

\* The pieces the inputs of postProcessMarkdown are put together from.
PostParts ==
    << <<"<", "d", "e", "t", "a", "i", "l", "s", ">">>,
       <<"<", "/", "d", "e", "t", "a", "i", "l", "s", ">">>,
       <<"<", "/", "d", "i", "v", ">", "<", "/", "d", "i", "v", ">", "<", "/", "d", "i", "v", ">">>,
       <<"x", "\n">>,
       <<" ">>,
       <<":", "f", "i", "r", "e", ":">>,
       <<"<", "/", "d", "e", "t", ":", "f", "i", "r", "e", ":", "a", "i", "l", "s", ">">> >>

MaxPostParts == 2

\* `</div>\s*</div>\s*</div>\s*` becomes "\n</details>\n\n".
PostDivTriples ==
    /\ pc = "div3"
    /\ md' = ReplaceDivRunsFrom(md, 3, Newline \o CloseTag \o Newline \o Newline, 0)
    /\ pc' = "div2"
    /\ UNCHANGED <<entry, input, iters, html, todo, call, first, rest>>

\* `</div>\s*</div>\s*` becomes "\n\n".
PostDivPairs ==
    /\ pc = "div2"
    /\ md' = ReplaceDivRunsFrom(md, 2, Newline \o Newline, 0)
    /\ pc' = "div1"
    /\ UNCHANGED <<entry, input, iters, html, todo, call, first, rest>>

\* `</div>` is removed, and the white space behind it stays.
PostDivSingles ==
    /\ pc = "div1"
    /\ md' = ReplaceAll(md, CloseDiv, << >>)
    /\ pc' = "straydiv"
    /\ UNCHANGED <<entry, input, iters, html, todo, call, first, rest>>

\* The standalone closing `</div>` are removed.
PostStrayDivs ==
    /\ pc = "straydiv"
    /\ md' = ReplaceAll(md, CloseDiv, << >>)
    /\ pc' = "blanklines"
    /\ UNCHANGED <<entry, input, iters, html, todo, call, first, rest>>

\* Three or more newlines in a row become two.
PostBlankLines ==
    /\ pc = "blanklines"
    /\ md' = CollapseNewlinesFrom(md, 0)
    /\ pc' = "trimlines"
    /\ UNCHANGED <<entry, input, iters, html, todo, call, first, rest>>

\* The trailing blanks and tabs of every line are cut.
PostTrimLines ==
    /\ pc = "trimlines"
    /\ md' = TrimLines(md)
    /\ pc' = "trimdoc"
    /\ UNCHANGED <<entry, input, iters, html, todo, call, first, rest>>

\* md = strings.TrimSpace(md) + "\n", and balanceDetailsTags is called.
PostTrimDocument ==
    /\ pc = "trimdoc"
    /\ md' = TrimSpace(md) \o Newline
    /\ pc' = "balance"
    /\ UNCHANGED <<entry, input, iters, html, todo, call, first, rest>>

\* A shortcode that is cut out of the text with nothing put in its place.
NoGlyph(k) == << >>

\* What the shortcode of entry k is replaced by.
Glyph(k) == textEmojis[k].emoji

\* One iteration of the range over textEmojis, for a key not yet visited.
PostEmoji ==
    /\ pc = "emoji"
    /\ \E k \in todo :
          /\ md' = ReplaceAll(md, textEmojis[k].code, Glyph(k))
          /\ todo' = todo \ {k}
    /\ UNCHANGED <<entry, pc, input, iters, html, call, first, rest>>

\* The range is over: md is returned.
PostReturn ==
    /\ pc = "emoji"
    /\ todo = {}
    /\ pc' = "done"
    /\ UNCHANGED <<entry, input, md, iters, html, todo, call, first, rest>>

InitPost ==
    /\ entry = "postProcessMarkdown"
    /\ input \in Texts(PostParts, MaxPostParts)
    /\ md = input
    /\ pc = "div3"
    /\ iters = 0
    /\ todo = DOMAIN textEmojis
    /\ html = << >>
    /\ call = 0
    /\ first = << >>
    /\ RestIdle

NextPost ==
    \/ PostDivTriples
    \/ PostDivPairs
    \/ PostDivSingles
    \/ PostStrayDivs
    \/ PostBlankLines
    \/ PostTrimLines
    \/ PostTrimDocument
    \/ BalanceIter
    \/ PostEmoji
    \/ PostReturn

SpecPost == InitPost /\ [][NextPost]_vars

----------------------------------------------------------------------------
(* preProcessHTML: the div-balance repair                                  *)
(*                                                                         *)
(* The rewriting rules of preProcessHTML that run before the repair each   *)
(* need a character that no text of PreParts holds ("&" for                *)
(* decodeHTMLEntities, a space or a letter of "class", "p", "img", "col",  *)
(* "table", "span", "fieldset", "input", "ul" for the patterns), so on     *)
(* these texts they change nothing.                                        *)

DivOpen == <<"<", "d", "i", "v">>

\* The pieces the inputs of preProcessHTML are put together from: an
\* opener, a closer, the halves that make a closer when a closer between
\* them is deleted, and a filler.
PreParts ==
    << DivOpen \o <<">">>,
       CloseDiv,
       <<"<", "/">>,
       <<"d", "i", "v", ">">>,
       <<"<">>,
       <<"/", "d", "i", "v", ">">>,
       <<"x">> >>

MaxPreParts == 4

\* strings.Replace(s, old, new, 1): the first occurrence of old replaced.
ReplaceFirst(s, old, new) ==
    LET i == IndexFrom(s, old, 0)
    IN  IF i = -1 THEN s
        ELSE Slice(s, 0, i) \o new \o Slice(s, i + Len(old), Len(s))

\* Everything before the repair: decodeHTMLEntities returns at its first
\* check and no pattern matches.
PreRewrite ==
    /\ entry = "preProcessHTML"
    /\ pc = "rewrite"
    /\ NothingToDecode(html)
    /\ html' = html
    /\ pc' = "count"
    /\ UNCHANGED <<entry, input, md, iters, todo, call, first, preVars, mimeVars, result, extractVars, convVars, pandocVars, mainVars>>

\* openCount := strings.Count(html, "<div"); closeCount likewise.
PreCount ==
    /\ entry = "preProcessHTML"
    /\ pc = "count"
    /\ divOpenCount' = StrCount(html, DivOpen)
    /\ divCloseCount' = StrCount(html, CloseDiv)
    /\ pc' = "loop"
    /\ UNCHANGED <<entry, input, md, iters, html, todo, call, first, mimeVars, result, extractVars, convVars, pandocVars, mainVars>>

\* One test of `for closeCount > openCount`, and the body or the return.
PreLoop ==
    /\ entry = "preProcessHTML"
    /\ pc = "loop"
    /\ IF divCloseCount > divOpenCount
       THEN /\ html' = ReplaceFirst(html, CloseDiv, << >>)
            /\ divCloseCount' = divCloseCount - 1
            /\ UNCHANGED <<pc, divOpenCount>>
       ELSE /\ pc' = "done"
            /\ UNCHANGED <<html, divOpenCount, divCloseCount>>
    /\ UNCHANGED <<entry, input, md, iters, todo, call, first, mimeVars, result, extractVars, convVars, pandocVars, mainVars>>

InitPre ==
    /\ entry = "preProcessHTML"
    /\ input \in Texts(PreParts, MaxPreParts)
    /\ html = input
    /\ pc = "rewrite"
    /\ md = << >>
    /\ iters = 0
    /\ todo = {}
    /\ call = 0
    /\ first = << >>
    /\ RestIdle

NextPre ==
    \/ PreRewrite
    \/ PreCount
    \/ PreLoop

SpecPre == InitPre /\ [][NextPre]_vars

----------------------------------------------------------------------------
(* preProcessHTML: the image and span rules                                *)
(*                                                                         *)
(* The texts of TagParts hold no "&", no "<div", no table, paragraph or    *)
(* plugin element, no style, data-*, tabindex, draggable or class          *)
(* attribute: of the rules of preProcessHTML only the image rule and the   *)
(* last span rule find anything in them.                                   *)

ImgOpen == <<"<", "i", "m", "g">>
SpanOpen == <<"<", "s", "p", "a", "n">>
SpanClose == <<"<", "/", "s", "p", "a", "n", ">">>
SrcAttr == <<"s", "r", "c", "=", "\"">>
AltAttr == <<"a", "l", "t", "=", "\"">>
Quote == <<"\"">>
TagEnd == <<">">>

\* The pieces the inputs are put together from: the beginning of an image
\* tag, attributes, the end of a tag, and the two span tags.
TagParts ==
    << ImgOpen,
       <<" ", "s", "r", "c", "=", "\"", "a", "\"">>,
       <<" ", "s", "r", "c", "=", "\"", "\"">>,
       <<" ", "a", "l", "t", "=", "\"", "b", "\"">>,
       <<" ", "w", "i", "d", "t", "h", "=", "\"", "9", "\"">>,
       TagEnd,
       SpanOpen \o TagEnd,
       SpanClose >>

MaxTagParts == 4

\* The greatest member of a non-empty set of numbers.
Max(S) == CHOOSE x \in S : \A y \in S : y <= x

\* imgPattern at offset i of s: the offset behind its match, or -1.  The
\* greedy `[^>]*` before `\ssrc="` takes the last src attribute before the
\* first ">" for which the rest matches; the value ends at the next quote
\* and the match at the first ">" behind it.
ImgMatchEnd(s, i) ==
    IF ~HasAt(s, ImgOpen, i) THEN -1
    ELSE LET gt == IndexFrom(s, TagEnd, i + Len(ImgOpen))
             limit == IF gt = -1 THEN Len(s) ELSE gt
             ValueEnd(p) == IndexFrom(s, Quote, p + 1 + Len(SrcAttr))
             ends == {p \in (i + Len(ImgOpen))..(limit - 1) :
                         /\ s[p + 1] \in RegexpSpace
                         /\ HasAt(s, SrcAttr, p + 1)
                         /\ ValueEnd(p) # -1
                         /\ IndexFrom(s, TagEnd, ValueEnd(p) + 1) # -1}
         IN  IF ends = {} THEN -1
             ELSE IndexFrom(s, TagEnd, ValueEnd(Max(ends)) + 1) + 1

\* FindStringSubmatch of attr followed by `([^"]*)"` in match: whether it
\* matches, and the value.
AttrValue(match, attr) ==
    LET i == IndexFrom(match, attr, 0)
        j == IF i = -1 THEN -1 ELSE IndexFrom(match, Quote, i + Len(attr))
    IN  IF j = -1 THEN [found |-> FALSE, value |-> << >>]
        ELSE [found |-> TRUE, value |-> Slice(match, i + Len(attr), j)]

\* The callback of imgPattern.ReplaceAllStringFunc.
SimplifyImg(match) ==
    LET src == AttrValue(match, SrcAttr).value
        alt == AttrValue(match, AltAttr).value
    IN  IF src = << >> THEN << >>
        ELSE ImgOpen \o <<" ">> \o SrcAttr \o src \o Quote
                 \o <<" ">> \o AltAttr \o alt \o Quote \o TagEnd

\* imgPattern.ReplaceAllStringFunc on s from offset `from` on.
RECURSIVE SimplifyImagesFrom(_, _)
SimplifyImagesFrom(s, from) ==
    IF from >= Len(s) THEN << >>
    ELSE LET end == ImgMatchEnd(s, from)
         IN  IF end = -1 THEN <<s[from + 1]>> \o SimplifyImagesFrom(s, from + 1)
             ELSE SimplifyImg(Slice(s, from, end)) \o SimplifyImagesFrom(s, end)

\* `<span[^>]*>([\s\S]*?)</span>` replaced by "$1" on s from offset
\* `from` on: a match runs from "<span" over the first ">" to the first
\* "</span>" behind it, and the search goes on behind the match.
RECURSIVE UnwrapSpansFrom(_, _)
UnwrapSpansFrom(s, from) ==
    IF from >= Len(s) THEN << >>
    ELSE LET gt == IF HasAt(s, SpanOpen, from)
                   THEN IndexFrom(s, TagEnd, from + Len(SpanOpen)) ELSE -1
             close == IF gt = -1 THEN -1 ELSE IndexFrom(s, SpanClose, gt + 1)
         IN  IF close = -1 THEN <<s[from + 1]>> \o UnwrapSpansFrom(s, from + 1)
             ELSE Slice(s, gt + 1, close) \o UnwrapSpansFrom(s, close + Len(SpanClose))

\* The image rule, after rules that found nothing.
PreImages ==
    /\ entry = "preProcessHTML"
    /\ pc = "images"
    /\ NothingToDecode(html)
    /\ html' = SimplifyImagesFrom(html, 0)
    /\ pc' = "spans"
    /\ UNCHANGED <<entry, input, md, iters, todo, call, first, rest>>

\* The span rules, of which the last alone finds something, and the
\* content-wrapper rule, which finds nothing.
PreSpans ==
    /\ entry = "preProcessHTML"
    /\ pc = "spans"
    /\ html' = UnwrapSpansFrom(html, 0)
    /\ pc' = "count"
    /\ UNCHANGED <<entry, input, md, iters, todo, call, first, rest>>

InitPreTags ==
    /\ entry = "preProcessHTML"
    /\ input \in Texts(TagParts, MaxTagParts)
    /\ html = input
    /\ pc = "images"
    /\ md = << >>
    /\ iters = 0
    /\ todo = {}
    /\ call = 0
    /\ first = << >>
    /\ RestIdle

NextPreTags ==
    \/ PreImages
    \/ PreSpans
    \/ PreCount
    \/ PreLoop

SpecPreTags == InitPreTags /\ [][NextPreTags]_vars

----------------------------------------------------------------------------
(* postProcessMarkdown: the emoji image rule                               *)
(*                                                                         *)
(* The inputs are single image tags.  The rules between the image rule     *)
(* and the closing-div rules look for div, span, a and u tags, code        *)
(* fences and entities, and find nothing in them.                          *)

\* The map literal, in the order of its lines, one glyph a sequence of its
\* code points and the space that follows it.
emojiReplacements ==
    << [alt |-> <<"(", "t", "i", "c", "k", ")">>,
        glyph |-> <<"U+2705", " ">>],
       [alt |-> <<"(", "e", "r", "r", "o", "r", ")">>,
        glyph |-> <<"U+274C", " ">>],
       [alt |-> <<"(", "b", "l", "u", "e", " ", "s", "t", "a", "r", ")">>,
        glyph |-> <<"U+1F6A7">>],
       [alt |-> <<"(", "w", "a", "r", "n", "i", "n", "g", ")">>,
        glyph |-> <<"U+26A0", "U+FE0F", " ">>],
       [alt |-> <<"(", "i", "n", "f", "o", ")">>,
        glyph |-> <<"U+2139", "U+FE0F", " ">>],
       [alt |-> <<"(", "q", "u", "e", "s", "t", "i", "o", "n", ")">>,
        glyph |-> <<"U+2753", " ">>],
       [alt |-> <<"(", "p", "l", "u", "s", ")">>,
        glyph |-> <<"U+2795", " ">>],
       [alt |-> <<"(", "m", "i", "n", "u", "s", ")">>,
        glyph |-> <<"U+2796", " ">>],
       [alt |-> <<"(", "o", "n", ")">>,
        glyph |-> <<"U+1F4A1", " ">>],
       [alt |-> <<"(", "o", "f", "f", ")">>,
        glyph |-> <<"U+2B55", " ">>],
       [alt |-> <<"(", "s", "t", "a", "r", ")">>,
        glyph |-> <<"U+2B50", " ">>],
       [alt |-> <<"(", "t", "h", "u", "m", "b", "s", " ", "u", "p", ")">>,
        glyph |-> <<"U+1F44D", " ">>],
       [alt |-> <<"(", "t", "h", "u", "m", "b", "s", " ", "d", "o", "w", "n", ")">>,
        glyph |-> <<"U+1F44E", " ">>] >>

ExpandControlImage == <<"e", "x", "p", "a", "n", "d", "-", "c", "o", "n", "t", "r", "o", "l", "-", "i", "m", "a", "g", "e">>

\* The attributes the image tags are put together from.
ImgAttrs ==
    << <<" ", "a", "l", "t", "=", "\"", "(", "t", "i", "c", "k", ")", "\"">>,
       <<" ", "a", "l", "t", "=", "\"", "x", "\"">>,
       <<" ", "a", "l", "t", "=", "\"", "\"">>,
       <<" ">> \o <<"c", "l", "a", "s", "s", "=", "\"">> \o ExpandControlImage \o Quote,
       <<" ", "s", "r", "c", "=", "\"", "e", "\"">> >>

MaxImgAttrs == 2

\* imgPattern of postProcessMarkdown at offset i of s: the offset behind
\* its match (or -1) and the alt it captures.  The greedy `[^>]*` before
\* `alt="` takes the last alt attribute before the first ">" for which the
\* rest matches; the value ends at the next quote and the match at the
\* first ">" behind it.
EmojiImgMatch(s, i) ==
    IF ~HasAt(s, ImgOpen, i) THEN [end |-> -1, alt |-> << >>]
    ELSE LET gt == IndexFrom(s, TagEnd, i + Len(ImgOpen))
             limit == IF gt = -1 THEN Len(s) ELSE gt
             ValueEnd(p) == IndexFrom(s, Quote, p + Len(AltAttr))
             starts == {p \in (i + Len(ImgOpen))..limit :
                           /\ HasAt(s, AltAttr, p)
                           /\ \A k \in (i + Len(ImgOpen))..(p - 1) : s[k + 1] # ">"
                           /\ ValueEnd(p) # -1
                           /\ IndexFrom(s, TagEnd, ValueEnd(p) + 1) # -1}
         IN  IF starts = {} THEN [end |-> -1, alt |-> << >>]
             ELSE [end |-> IndexFrom(s, TagEnd, ValueEnd(Max(starts)) + 1) + 1,
                   alt |-> Slice(s, Max(starts) + Len(AltAttr), ValueEnd(Max(starts)))]

\* The callback of imgPattern.ReplaceAllStringFunc, for a match that
\* captured alt.
ReplaceEmojiImg(match, alt) ==
    IF \E k \in DOMAIN emojiReplacements : emojiReplacements[k].alt = alt
    THEN emojiReplacements[CHOOSE k \in DOMAIN emojiReplacements :
                               emojiReplacements[k].alt = alt].glyph
    ELSE IF Contains(match, ExpandControlImage) THEN << >>
    ELSE match

\* imgPattern.ReplaceAllStringFunc on s from offset `from` on.
RECURSIVE ReplaceEmojiImagesFrom(_, _)
ReplaceEmojiImagesFrom(s, from) ==
    IF from >= Len(s) THEN << >>
    ELSE LET m == EmojiImgMatch(s, from)
         IN  IF m.end = -1 THEN <<s[from + 1]>> \o ReplaceEmojiImagesFrom(s, from + 1)
             ELSE ReplaceEmojiImg(Slice(s, from, m.end), m.alt)
                      \o ReplaceEmojiImagesFrom(s, m.end)

\* The emoji image rule, and the rules up to the closing-div rules, which
\* find nothing.
PostEmojiImages ==
    /\ entry = "postProcessMarkdown"
    /\ pc = "emojiimg"
    /\ md' = ReplaceEmojiImagesFrom(md, 0)
    /\ pc' = "div3"
    /\ UNCHANGED <<entry, input, iters, html, todo, call, first, rest>>

InitPostImages ==
    /\ entry = "postProcessMarkdown"
    /\ input \in {ImgOpen \o attrs \o TagEnd : attrs \in Texts(ImgAttrs, MaxImgAttrs)}
    /\ md = input
    /\ pc = "emojiimg"
    /\ iters = 0
    /\ todo = DOMAIN textEmojis
    /\ html = << >>
    /\ call = 0
    /\ first = << >>
    /\ RestIdle

NextPostImages ==
    \/ PostEmojiImages
    \/ NextPost

SpecPostImages == InitPostImages /\ [][NextPostImages]_vars

----------------------------------------------------------------------------
(* postProcessMarkdown: the expander rules                                 *)
(*                                                                         *)
(* The inputs are single expander constructs.  Of the rules before the     *)
(* closing-div rules, those for the expander divs and the expand-control   *)
(* spans find something in them; the others look for an image, a macro, a  *)
(* panel, a second "<details>", a code fence or a link, and find nothing.  *)

ExpanderDiv == <<"<", "d", "i", "v", " ", "i", "d", "=", "\"", "e", "x", "p", "a", "n", "d", "e", "r", "-">>
ControlDiv == <<"<", "d", "i", "v", " ", "i", "d", "=", "\"", "e", "x", "p", "a", "n", "d", "e", "r", "-", "c", "o", "n", "t", "r", "o", "l", "-">>
ContentDiv == <<"<", "d", "i", "v", " ", "i", "d", "=", "\"", "e", "x", "p", "a", "n", "d", "e", "r", "-", "c", "o", "n", "t", "e", "n", "t", "-">>
IconSpan == <<"<", "s", "p", "a", "n", " ", "c", "l", "a", "s", "s", "=", "\"", "e", "x", "p", "a", "n", "d", "-", "c", "o", "n", "t", "r", "o", "l", "-", "i", "c", "o", "n", "\"", ">">>
TextSpan == <<"<", "s", "p", "a", "n", " ", "c", "l", "a", "s", "s", "=", "\"", "e", "x", "p", "a", "n", "d", "-", "c", "o", "n", "t", "r", "o", "l", "-", "t", "e", "x", "t", "\"", ">">>
Summary == <<"<", "s", "u", "m", "m", "a", "r", "y", ">">>
SummaryEnd == <<"<", "/", "s", "u", "m", "m", "a", "r", "y", ">">>
Digits == {"0", "1", "2", "3", "4", "5", "6", "7", "8", "9"}

\* The offset of the first character of s at or behind offset i that is
\* not in `set`, or Len(s).
RECURSIVE SkipAll(_, _, _)
SkipAll(s, i, set) ==
    IF i < Len(s) /\ s[i + 1] \in set THEN SkipAll(s, i + 1, set) ELSE i

NoMatch == [end |-> -1, text |-> << >>]

\* `<div id="expander-\d+"[^>]*>\s*` and its two likes at offset i of s,
\* `open` being the text before `\d+`: the offset behind the match, or -1.
DivOpenEnd(s, i, open) ==
    IF ~HasAt(s, open, i) THEN -1
    ELSE LET digits == SkipAll(s, i + Len(open), Digits)
             gt == IndexFrom(s, TagEnd, digits + 1)
         IN  IF digits = i + Len(open) \/ ~HasAt(s, Quote, digits) \/ gt = -1 THEN -1
             ELSE SkipAll(s, gt + 1, RegexpSpace)

\* `open` followed by `[^<]*</span>` at offset i of s: the offset of the
\* "</span>", or -1.
SpanBodyEnd(s, i, open) ==
    IF ~HasAt(s, open, i) THEN -1
    ELSE LET lt == IndexFrom(s, <<"<">>, i + Len(open))
         IN  IF lt # -1 /\ HasAt(s, SpanClose, lt) THEN lt ELSE -1

\* The rules for expanders, in the order they are applied in.
ExpanderRules == <<"expander", "control", "icon and text", "text", "icon", "content">>

\* The match of a rule at offset i of s: the offset behind it (or -1) and
\* the text it is replaced by.
ExpanderMatch(rule, s, i) ==
    CASE rule = "expander" ->
             [end |-> DivOpenEnd(s, i, ExpanderDiv), text |-> Newline \o OpenTag \o Newline]
      [] rule = "control" ->
             [end |-> DivOpenEnd(s, i, ControlDiv), text |-> Summary]
      [] rule = "content" ->
             [end |-> DivOpenEnd(s, i, ContentDiv), text |-> SummaryEnd \o Newline]
      [] rule = "text" ->
             LET close == SpanBodyEnd(s, i, TextSpan)
             IN  IF close = -1 THEN NoMatch
                 ELSE [end |-> SkipAll(s, close + Len(SpanClose), RegexpSpace),
                       text |-> Slice(s, i + Len(TextSpan), close)]
      [] rule = "icon" ->
             LET close == SpanBodyEnd(s, i, IconSpan)
             IN  IF close = -1 THEN NoMatch
                 ELSE [end |-> SkipAll(s, close + Len(SpanClose), RegexpSpace),
                       text |-> << >>]
      [] rule = "icon and text" ->
             LET icon == SpanBodyEnd(s, i, IconSpan)
                 from == icon + Len(SpanClose)
                 close == IF icon = -1 THEN -1 ELSE SpanBodyEnd(s, from, TextSpan)
             IN  IF close = -1 THEN NoMatch
                 ELSE [end |-> SkipAll(s, close + Len(SpanClose), RegexpSpace),
                       text |-> Slice(s, from + Len(TextSpan), close)]

\* ReplaceAllString of a rule on s from offset `from` on: the text up to
\* the first match, what the match is replaced by, and the same behind it.
RECURSIVE ApplyRuleFrom(_, _, _)
ApplyRuleFrom(rule, s, from) ==
    LET hits == {i \in from..(Len(s) - 1) : ExpanderMatch(rule, s, i).end # -1}
    IN  IF hits = {} THEN Slice(s, from, Len(s))
        ELSE LET i == CHOOSE h \in hits : \A g \in hits : h <= g
                 m == ExpanderMatch(rule, s, i)
             IN  Slice(s, from, i) \o m.text \o ApplyRuleFrom(rule, s, m.end)

\* The rules from the n-th on applied to s, one after the other.
RECURSIVE ApplyRules(_, _)
ApplyRules(s, n) ==
    IF n > Len(ExpanderRules) THEN s
    ELSE ApplyRules(ApplyRuleFrom(ExpanderRules[n], s, 0), n + 1)

\* The pieces of an expander construct: the numbers of the ids, what
\* stands in the control block, in the content block and between the tags.
ExpanderIds == {<<"1">>, <<"1", "2", "3">>}
ExpanderLabels == {<<"t">>, IconSpan \o <<"+">> \o SpanClose \o TextSpan \o <<"t">> \o SpanClose}
ExpanderBodies == {<< >>, <<"c">>, <<"c", "\n">>}
ExpanderGaps == {<< >>, Newline}

\* The expander with these pieces: the outer div, the control block and
\* the content block, each block closed by its "</div>", and the "</div>"
\* of the outer div.
Expander(id, label, body, gap1, gap2) ==
    ExpanderDiv \o id \o Quote \o TagEnd
        \o ControlDiv \o id \o Quote \o TagEnd \o label \o CloseDiv \o gap1
        \o ContentDiv \o id \o Quote \o TagEnd \o body \o CloseDiv \o gap2
        \o CloseDiv

\* The rules up to the closing-div rules.
PostExpanders ==
    /\ entry = "postProcessMarkdown"
    /\ pc = "expander"
    /\ md' = ApplyRules(md, 1)
    /\ pc' = "div3"
    /\ UNCHANGED <<entry, input, iters, html, todo, call, first, rest>>

InitPostExpander ==
    /\ entry = "postProcessMarkdown"
    /\ input \in {Expander(id, label, body, gap1, gap2) :
                     id \in ExpanderIds, label \in ExpanderLabels, body \in ExpanderBodies,
                     gap1 \in ExpanderGaps, gap2 \in ExpanderGaps}
    /\ md = input
    /\ pc = "expander"
    /\ iters = 0
    /\ todo = DOMAIN textEmojis
    /\ html = << >>
    /\ call = 0
    /\ first = << >>
    /\ RestIdle

NextPostExpander ==
    \/ PostExpanders
    \/ NextPost

SpecPostExpander == InitPostExpander /\ [][NextPostExpander]_vars

----------------------------------------------------------------------------
(* postProcessMarkdown: the shortcode rule on neighbouring shortcodes      *)

\* The pieces of the inputs: ":info:", "fire:", ":star:", "rocket:" and
\* ":fire:".  A shortcode followed by the tail of another shares its last
\* colon with it.
EmojiParts ==
    << textEmojis[7].code,
       Tail(textEmojis[10].code),
       textEmojis[9].code,
       Tail(textEmojis[11].code),
       textEmojis[10].code >>

MaxEmojiParts == 2

InitPostEmoji ==
    /\ entry = "postProcessMarkdown"
    /\ input \in Texts(EmojiParts, MaxEmojiParts)
    /\ md = input
    /\ pc = "div3"
    /\ iters = 0
    /\ todo = DOMAIN textEmojis
    /\ html = << >>
    /\ call = 0
    /\ first = << >>
    /\ RestIdle

SpecPostEmoji == InitPostEmoji /\ [][NextPost]_vars

----------------------------------------------------------------------------
(* IsConfluenceMIME                                                        *)
(*                                                                         *)
(* A file is whether os.Open succeeds, its lines, and where a read of it   *)
(* fails.  A line is its text and `pad`, a number of further filler        *)
(* characters "x" at its end that the model does not spell out: a line     *)
(* of MaxScanTokenSize characters or more cannot be written down.          *)

\* The locals of the text-rewriting functions.
textLocals == <<md, iters, html, todo, call, first>>

mimeHeaderScanLimit == 10

\* bufio.MaxScanTokenSize, the buffer limit of the bufio.NewScanner scanner.
MaxScanTokenSize == 65536

DateHeader == <<"D", "a", "t", "e", ":">>
MIMEVersionHeader == <<"M", "I", "M", "E", "-", "V", "e", "r", "s", "i", "o", "n", ":">>
ConfluenceSubject ==
    <<"E", "x", "p", "o", "r", "t", "e", "d", " ", "F", "r", "o", "m", " ",
      "C", "o", "n", "f", "l", "u", "e", "n", "c", "e">>

\* strings.HasPrefix
HasPrefix(s, prefix) == HasAt(s, prefix, 0)

\* The three header lines of an export: "Date: x", "MIME-Version: 1.0",
\* "Subject: Exported From Confluence".
DateLine == DateHeader \o <<" ", "x">>
MIMEVersionLine == MIMEVersionHeader \o <<" ", "1", ".", "0">>
SubjectLine == <<"S", "u", "b", "j", "e", "c", "t", ":", " ">> \o ConfluenceSubject

\* Every other line: it holds "Date:" and "MIME-Version:", neither at its
\* start, and the subject in lower case.
OtherLine ==
    <<"X", "-">> \o DateHeader \o <<" ">> \o MIMEVersionHeader
    \o <<" ", "e", "x", "p", "o", "r", "t", "e", "d", " ", "f", "r", "o", "m", " ",
         "c", "o", "n", "f", "l", "u", "e", "n", "c", "e">>

\* The text of line i of the file whose header lines are at pDate, pMIME
\* and pSubject (0: not in the file); header lines put at the same place
\* are written one after the other on that line.
LineText(i, pDate, pMIME, pSubject) ==
    IF i \notin {pDate, pMIME, pSubject} THEN OtherLine
    ELSE (IF i = pDate THEN DateLine ELSE << >>)
         \o (IF i = pMIME THEN MIMEVersionLine ELSE << >>)
         \o (IF i = pSubject THEN SubjectLine ELSE << >>)

\* How long the files are, where their header lines can be (the first line,
\* the last of the scan window, the first after it), where an over-long
\* line can be, and after how many lines a read can fail (-1: never).
FileLengths == {2, 12}
HeaderPlaces == {0, 1, 10, 11}
LongPlaces == {0, 2, 11, 12}
FailPlaces == {-1, 0, 3, 10, 11}

\* The files of n lines.
FilesOfLength(n) ==
    { [opens |-> o,
       lines |-> [i \in 1..n |->
                     [text |-> LineText(i, pd, pm, ps),
                      pad |-> IF i = pl THEN MaxScanTokenSize ELSE 0]],
       failAt |-> f,
       partial |-> p] :
      o \in BOOLEAN, pd \in HeaderPlaces, pm \in HeaderPlaces,
      ps \in HeaderPlaces, pl \in LongPlaces,
      f \in {x \in FailPlaces : x <= n}, p \in BOOLEAN }

Files == UNION {FilesOfLength(n) : n \in FileLengths}

\* The length of a line in characters.
LineLen(line) == Len(line.text) + line.pad

\* scanner.Scan() of a bufio.Scanner over the file: whether it hands out a
\* line, how many lines it has handed out afterwards, and scanner.Err()
\* afterwards.  It stops for good at the end of the file, at a failed read
\* and at a line that does not fit its buffer.  When a read fails in the
\* middle of a line (file.partial), what was read of the line is handed out
\* with the error already set.
Scan ==
    LET next == scanned + 1
    IN  IF scanErr # "nil" THEN [ok |-> FALSE, scanned |-> scanned, err |-> scanErr]
        ELSE IF file.failAt = scanned /\ ~(file.partial /\ scanned >= 1)
             THEN [ok |-> FALSE, scanned |-> scanned, err |-> "read error"]
        ELSE IF next > Len(file.lines)
             THEN [ok |-> FALSE, scanned |-> scanned, err |-> "nil"]
        ELSE IF LineLen(file.lines[next]) >= MaxScanTokenSize
             THEN [ok |-> FALSE, scanned |-> scanned, err |-> "bufio.Scanner: token too long"]
        ELSE [ok |-> TRUE, scanned |-> next,
              err |-> IF file.failAt = next /\ file.partial THEN "read error" ELSE "nil"]

\* os.Open and its error return.
MimeOpen ==
    /\ entry = "IsConfluenceMIME"
    /\ pc = "open"
    /\ IF file.opens
       THEN pc' = "scan" /\ UNCHANGED result
       ELSE /\ pc' = "done"
            /\ result' = [returned |-> TRUE, ok |-> FALSE, err |-> "failed to open file"]
    /\ UNCHANGED <<entry, input, textLocals, preVars, mimeVars, extractVars, convVars, pandocVars, mainVars>>

\* One test of `for scanner.Scan() && lineCount < mimeHeaderScanLimit`, and
\* the body when it passes.  Scan() is called before lineCount is looked at.
MimeScan ==
    /\ entry = "IsConfluenceMIME"
    /\ pc = "scan"
    /\ LET s == Scan
       IN  /\ scanned' = s.scanned
           /\ scanErr' = s.err
           /\ IF s.ok /\ lineCount < mimeHeaderScanLimit
              THEN LET line == file.lines[s.scanned].text
                   IN  /\ lineCount' = lineCount + 1
                       /\ hasDateHeader' = (hasDateHeader \/ HasPrefix(line, DateHeader))
                       /\ hasMIMEVersion' = (hasMIMEVersion \/ HasPrefix(line, MIMEVersionHeader))
                       /\ hasConfluenceSubject' =
                              (hasConfluenceSubject \/ Contains(line, ConfluenceSubject))
                       /\ pc' = pc
              ELSE /\ pc' = "err"
                   /\ UNCHANGED <<lineCount, hasDateHeader, hasMIMEVersion, hasConfluenceSubject>>
    /\ UNCHANGED <<entry, input, textLocals, preVars, file, result, extractVars, convVars, pandocVars, mainVars>>

\* What the mutant of MimeReturn returns: the three flags, whatever
\* scanner.Err() is.
MimeReturnIgnoringErr ==
    /\ entry = "IsConfluenceMIME"
    /\ pc = "err"
    /\ result' = [returned |-> TRUE,
                  ok |-> hasDateHeader /\ hasMIMEVersion /\ hasConfluenceSubject,
                  err |-> "nil"]
    /\ pc' = "done"
    /\ UNCHANGED <<entry, input, textLocals, preVars, mimeVars, extractVars, convVars, pandocVars, mainVars>>

\* The test of scanner.Err() and the two returns after the loop.
MimeReturn ==
    /\ entry = "IsConfluenceMIME"
    /\ pc = "err"
    /\ result' = IF scanErr # "nil"
                 THEN [returned |-> TRUE, ok |-> FALSE, err |-> "failed to read file"]
                 ELSE [returned |-> TRUE,
                       ok |-> hasDateHeader /\ hasMIMEVersion /\ hasConfluenceSubject,
                       err |-> "nil"]
    /\ pc' = "done"
    /\ UNCHANGED <<entry, input, textLocals, preVars, mimeVars, extractVars, convVars, pandocVars, mainVars>>

InitMime ==
    /\ entry = "IsConfluenceMIME"
    /\ pc = "open"
    /\ input = << >>
    /\ md = << >>
    /\ iters = 0
    /\ html = << >>
    /\ todo = {}
    /\ call = 0
    /\ first = << >>
    /\ PreIdle
    /\ file \in Files
    /\ scanned = 0
    /\ scanErr = "nil"
    /\ lineCount = 0
    /\ hasDateHeader = FALSE
    /\ hasMIMEVersion = FALSE
    /\ hasConfluenceSubject = FALSE
    /\ result = NoResult
    /\ ExtractIdle
    /\ ConvIdle
    /\ PandocIdle
    /\ MainIdle

NextMime ==
    \/ MimeOpen
    \/ MimeScan
    \/ MimeReturn

SpecMime == InitMime /\ [][NextMime]_vars

----------------------------------------------------------------------------
(* ExtractHTMLFromMIME                                                     *)
(*                                                                         *)
(* The message is modelled by what the parsers of net/mail, mime and       *)
(* mime/multipart make of the file: whether os.Open and mail.ReadMessage   *)
(* succeed, what mime.ParseMediaType returns for the top-level             *)
(* Content-Type, the parts in order, and whether the part stream ends      *)
(* with io.EOF or with an error.                                           *)

MultipartPrefix == <<"m", "u", "l", "t", "i", "p", "a", "r", "t", "/">>
TextHTML == <<"t", "e", "x", "t", "/", "h", "t", "m", "l">>
TextPlain == <<"t", "e", "x", "t", "/", "p", "l", "a", "i", "n">>

\* What mime.ParseMediaType can return for the top-level Content-Type:
\* multipart/related with and without a boundary, text/plain with and
\* without one, "multipart" with no subtype, and an error.
ContentTypes ==
    { [err |-> FALSE, mediaType |-> MultipartPrefix \o <<"r", "e", "l", "a", "t", "e", "d">>,
       boundary |-> <<"b">>],
      [err |-> FALSE, mediaType |-> MultipartPrefix \o <<"r", "e", "l", "a", "t", "e", "d">>,
       boundary |-> << >>],
      [err |-> FALSE, mediaType |-> TextPlain, boundary |-> <<"b">>],
      [err |-> FALSE, mediaType |-> TextPlain, boundary |-> << >>],
      [err |-> FALSE, mediaType |-> <<"m", "u", "l", "t", "i", "p", "a", "r", "t">>,
       boundary |-> <<"b">>],
      [err |-> TRUE, mediaType |-> << >>, boundary |-> << >>] }

\* The body of every part.
PartBody == <<"<", "p", ">", "a", "=", "3", "D", "b", "<", "/", "p", ">">>

\* The parts a message is made of: text/html as it is, text/html in
\* quoted-printable (the header value in mixed case), text/html whose body
\* cannot be read, text/plain, and a part with no Content-Type.
PartKinds ==
    << [mediaType |-> TextHTML, encoding |-> "7bit", readErr |-> FALSE],
       [mediaType |-> TextHTML, encoding |-> "Quoted-Printable", readErr |-> FALSE],
       [mediaType |-> TextHTML, encoding |-> "", readErr |-> TRUE],
       [mediaType |-> TextPlain, encoding |-> "quoted-printable", readErr |-> FALSE],
       [mediaType |-> << >>, encoding |-> "", readErr |-> FALSE] >>

MaxMimeParts == 2

Messages ==
    {[opens |-> FALSE]}
    \cup {[opens |-> TRUE, parses |-> FALSE]}
    \cup { [opens |-> TRUE, parses |-> TRUE, contentType |-> ct,
            parts |-> [i \in DOMAIN ks |-> PartKinds[ks[i]]], eof |-> e] :
           ct \in ContentTypes,
           ks \in UNION {[1..n -> DOMAIN PartKinds] : n \in 0..MaxMimeParts},
           e \in BOOLEAN }

\* strings.ToLower, on the values of the Content-Transfer-Encoding header.
ToLower(s) == IF s = "Quoted-Printable" THEN "quoted-printable" ELSE s

\* The text read from a part: through quotedprintable.NewReader when the
\* part says so, which is written as a term and not carried out.
PartText(part) ==
    IF ToLower(part.encoding) = "quoted-printable"
    THEN <<"quotedprintable", PartBody>>
    ELSE PartBody

\* A return of ("", error).
Failed(message) == [returned |-> TRUE, text |-> << >>, err |-> message]

ExtractOpen ==
    /\ entry = "ExtractHTMLFromMIME"
    /\ pc = "open"
    /\ IF msg.opens
       THEN pc' = "read" /\ UNCHANGED result
       ELSE pc' = "done" /\ result' = Failed("failed to open file")
    /\ UNCHANGED <<entry, input, textLocals, preVars, mimeVars, extractVars, convVars, pandocVars, mainVars>>

\* mail.ReadMessage
ExtractReadMessage ==
    /\ entry = "ExtractHTMLFromMIME"
    /\ pc = "read"
    /\ IF msg.parses
       THEN pc' = "header" /\ UNCHANGED result
       ELSE pc' = "done" /\ result' = Failed("failed to parse MIME message")
    /\ UNCHANGED <<entry, input, textLocals, preVars, mimeVars, extractVars, convVars, pandocVars, mainVars>>

\* What the mutant of ExtractContentType does: the same without the test
\* of the boundary.
ExtractContentTypeAnyBoundary ==
    /\ entry = "ExtractHTMLFromMIME"
    /\ pc = "header"
    /\ LET ct == msg.contentType
       IN  IF ct.err
           THEN pc' = "done" /\ result' = Failed("failed to parse Content-Type")
           ELSE IF ~HasPrefix(ct.mediaType, MultipartPrefix)
           THEN pc' = "done" /\ result' = Failed("expected multipart message")
           ELSE pc' = "part" /\ UNCHANGED result
    /\ UNCHANGED <<entry, input, textLocals, preVars, mimeVars, extractVars, convVars, pandocVars, mainVars>>

\* The three tests of the top-level Content-Type.
ExtractContentType ==
    /\ entry = "ExtractHTMLFromMIME"
    /\ pc = "header"
    /\ LET ct == msg.contentType
       IN  IF ct.err
           THEN pc' = "done" /\ result' = Failed("failed to parse Content-Type")
           ELSE IF ~HasPrefix(ct.mediaType, MultipartPrefix)
           THEN pc' = "done" /\ result' = Failed("expected multipart message")
           ELSE IF ct.boundary = << >>
           THEN pc' = "done" /\ result' = Failed("no boundary found in Content-Type")
           ELSE pc' = "part" /\ UNCHANGED result
    /\ UNCHANGED <<entry, input, textLocals, preVars, mimeVars, extractVars, convVars, pandocVars, mainVars>>

\* One iteration of the loop over mr.NextPart().
ExtractNextPart ==
    /\ entry = "ExtractHTMLFromMIME"
    /\ pc = "part"
    /\ partsRead' = partsRead + 1
    /\ LET k == partsRead + 1
       IN  IF k > Len(msg.parts)
           THEN IF msg.eof
                THEN pc' = "nohtml" /\ UNCHANGED result
                ELSE pc' = "done" /\ result' = Failed("failed to read MIME part")
           ELSE IF msg.parts[k].mediaType = TextHTML
           THEN /\ pc' = "done"
                /\ result' = IF msg.parts[k].readErr
                             THEN Failed("failed to read HTML content")
                             ELSE [returned |-> TRUE, text |-> PartText(msg.parts[k]),
                                   err |-> "nil"]
           ELSE pc' = pc /\ UNCHANGED result
    /\ UNCHANGED <<entry, input, textLocals, preVars, mimeVars, msg, convVars, pandocVars, mainVars>>

\* The return after the loop.
ExtractNoHTML ==
    /\ entry = "ExtractHTMLFromMIME"
    /\ pc = "nohtml"
    /\ pc' = "done"
    /\ result' = Failed("no text/html part found in MIME message")
    /\ UNCHANGED <<entry, input, textLocals, preVars, mimeVars, extractVars, convVars, pandocVars, mainVars>>

InitExtract ==
    /\ entry = "ExtractHTMLFromMIME"
    /\ pc = "open"
    /\ input = << >>
    /\ md = << >>
    /\ iters = 0
    /\ html = << >>
    /\ todo = {}
    /\ call = 0
    /\ first = << >>
    /\ PreIdle
    /\ MimeIdle
    /\ result = NoResult
    /\ msg \in Messages
    /\ partsRead = 0
    /\ ConvIdle
    /\ PandocIdle
    /\ MainIdle

NextExtract ==
    \/ ExtractOpen
    \/ ExtractReadMessage
    \/ ExtractContentType
    \/ ExtractNextPart
    \/ ExtractNoHTML

SpecExtract == InitExtract /\ [][NextExtract]_vars

----------------------------------------------------------------------------
(* ConvertHTMLToMarkdown                                                   *)
(*                                                                         *)
(* `world` is what the call cannot choose: whether a pandoc binary is      *)
(* embedded in the build, whether pandoc.EnsureExtracted succeeds, what    *)
(* the pandoc process does (exits with success, exits with failure, or     *)
(* never exits) and which operation on the temporary files fails.  The     *)
(* texts are written as terms, <<"f", x>> for f(x): what the three stages  *)
(* compute is modelled where each stage is.  Time is in seconds.           *)

\* pandocTimeout = 2 * time.Minute
pandocTimeout == 120

\* How far the clock goes in one step, and how far at all.
TickSeconds == 60
MaxElapsed == 240

Behaviours == {"exits 0", "exits 1", "never exits"}
TempFileFailures == {"none", "CreateTemp html", "WriteString", "CreateTemp md", "ReadFile"}

Worlds ==
    { [embedded |-> e, extracts |-> x, behaviour |-> b, fails |-> f] :
      e \in BOOLEAN, x \in BOOLEAN, b \in Behaviours, f \in TempFileFailures }

\* The three stages in the order of the function body.
Pipeline == <<"preProcessHTML", "pandoc", "postProcessMarkdown">>

\* The context made at the start of the call is done.
DeadlineExceeded == elapsed >= pandocTimeout

\* The process was started with exec.CommandContext(ctx, ...), and ctx is
\* done while it runs: it is killed before any more time passes.
KillDue == proc = "running" /\ world.embedded /\ DeadlineExceeded

\* context.WithTimeout and the call of preProcessHTML.
ConvPreProcess ==
    /\ entry = "ConvertHTMLToMarkdown"
    /\ pc = "start"
    /\ html' = <<"preProcessHTML", input>>
    /\ stages' = Append(stages, "preProcessHTML")
    /\ pc' = IF world.embedded THEN "embedded" ELSE "system"
    /\ UNCHANGED <<entry, input, md, iters, todo, call, first, preVars, mimeVars, result,
                   extractVars, world, elapsed, proc, pandocVars, mainVars>>

\* pandoc.Convert up to cmd.Run(): EnsureExtracted, and the start of the
\* process under ctx, which fails at once when ctx is already done.
ConvEmbedded ==
    /\ entry = "ConvertHTMLToMarkdown"
    /\ pc = "embedded"
    /\ IF ~world.extracts \/ DeadlineExceeded
       THEN /\ pc' = "done"
            /\ result' = Failed("pandoc conversion failed")
            /\ UNCHANGED <<stages, proc>>
       ELSE /\ pc' = "wait"
            /\ proc' = "running"
            /\ stages' = Append(stages, "pandoc")
            /\ UNCHANGED result
    /\ UNCHANGED <<entry, input, textLocals, preVars, mimeVars, extractVars,
                   world, elapsed, pandocVars, mainVars>>

\* The fallback up to cmd.CombinedOutput(): the two temporary files, and
\* the start of the process made by exec.Command.
ConvSystem ==
    /\ entry = "ConvertHTMLToMarkdown"
    /\ pc = "system"
    /\ IF world.fails \in {"CreateTemp html", "WriteString", "CreateTemp md"}
       THEN /\ pc' = "done"
            /\ result' = Failed(IF world.fails = "WriteString"
                                THEN "failed to write HTML to temp file"
                                ELSE "failed to create temp file")
            /\ UNCHANGED <<stages, proc>>
       ELSE /\ pc' = "wait"
            /\ proc' = "running"
            /\ stages' = Append(stages, "pandoc")
            /\ UNCHANGED result
    /\ UNCHANGED <<entry, input, textLocals, preVars, mimeVars, extractVars,
                   world, elapsed, pandocVars, mainVars>>

\* The pandoc process exits by itself.
ProcExit ==
    /\ entry = "ConvertHTMLToMarkdown"
    /\ proc = "running"
    /\ world.behaviour # "never exits"
    /\ proc' = "exited"
    /\ UNCHANGED <<entry, pc, input, textLocals, preVars, mimeVars, result, extractVars,
                   world, stages, elapsed, pandocVars, mainVars>>

\* exec.CommandContext kills the process when ctx is done.
ProcKill ==
    /\ entry = "ConvertHTMLToMarkdown"
    /\ KillDue
    /\ proc' = "killed"
    /\ UNCHANGED <<entry, pc, input, textLocals, preVars, mimeVars, result, extractVars,
                   world, stages, elapsed, pandocVars, mainVars>>

\* Time passes while the call is under way.
Tick ==
    /\ entry = "ConvertHTMLToMarkdown"
    /\ pc # "done"
    /\ elapsed < MaxElapsed
    /\ ~KillDue
    /\ ~(proc = "killed" /\ pc = "wait")
    /\ elapsed' = elapsed + TickSeconds
    /\ UNCHANGED <<entry, pc, input, textLocals, preVars, mimeVars, result, extractVars,
                   world, stages, proc, pandocVars, mainVars>>

\* What the mutant of ConvWait does: it goes on to postProcessMarkdown
\* whatever became of the process.
ConvWaitIgnoringFailure ==
    /\ entry = "ConvertHTMLToMarkdown"
    /\ pc = "wait"
    /\ proc \in {"exited", "killed"}
    /\ pc' = "post"
    /\ UNCHANGED <<entry, input, textLocals, preVars, mimeVars, result, extractVars,
                   convVars, pandocVars, mainVars>>

\* cmd.Run() / cmd.CombinedOutput() returns: the error return, or (in the
\* fallback) os.ReadFile and the way on to postProcessMarkdown.
ConvWait ==
    /\ entry = "ConvertHTMLToMarkdown"
    /\ pc = "wait"
    /\ proc \in {"exited", "killed"}
    /\ IF proc = "killed" \/ world.behaviour = "exits 1"
       THEN /\ pc' = "done"
            /\ result' = Failed(IF world.embedded THEN "pandoc conversion failed"
                                ELSE "pandoc failed")
       ELSE IF ~world.embedded /\ world.fails = "ReadFile"
       THEN /\ pc' = "done"
            /\ result' = Failed("failed to read converted markdown")
       ELSE /\ pc' = "post"
            /\ UNCHANGED result
    /\ UNCHANGED <<entry, input, textLocals, preVars, mimeVars, extractVars,
                   convVars, pandocVars, mainVars>>

\* postProcessMarkdown on what pandoc wrote, and the return.
ConvPostProcess ==
    /\ entry = "ConvertHTMLToMarkdown"
    /\ pc = "post"
    /\ stages' = Append(stages, "postProcessMarkdown")
    /\ result' = [returned |-> TRUE,
                  text |-> <<"postProcessMarkdown", <<"pandoc", html>>>>,
                  err |-> "nil"]
    /\ pc' = "done"
    /\ UNCHANGED <<entry, input, textLocals, preVars, mimeVars, extractVars,
                   world, elapsed, proc, pandocVars, mainVars>>

InitConv ==
    /\ entry = "ConvertHTMLToMarkdown"
    /\ pc = "start"
    /\ input = <<"h", "t", "m", "l">>
    /\ html = input
    /\ md = << >>
    /\ iters = 0
    /\ todo = {}
    /\ call = 0
    /\ first = << >>
    /\ PreIdle
    /\ MimeIdle
    /\ result = NoResult
    /\ ExtractIdle
    /\ world \in Worlds
    /\ stages = << >>
    /\ elapsed = 0
    /\ proc = "none"
    /\ PandocIdle
    /\ MainIdle

NextConv ==
    \/ ConvPreProcess
    \/ ConvEmbedded
    \/ ConvSystem
    \/ ProcExit
    \/ ProcKill
    \/ Tick
    \/ ConvWait
    \/ ConvPostProcess

SpecConv == InitConv /\ [][NextConv]_vars

----------------------------------------------------------------------------
(* package pandoc: EnsureExtracted, Run, Convert, GetPath, Cleanup         *)
(*                                                                         *)
(* Goroutines call the functions of the package.  sync.Once is modelled    *)
(* by its algorithm: a `done` flag read without the lock, and a mutex `m`  *)
(* (0: free, else the goroutine holding it) under which the flag is read   *)
(* again and the function is run.  gret[g] is the call goroutine g is in   *)
(* or was last in: the function called, whether it has returned, whether  *)
(* it ran extractBinary, what it returned, and `before`, the guard and     *)
(* the last return of the package as they were when the call began.        *)

NumGoroutines == 3

\* How many calls a goroutine makes when several run, and when one runs.
MaxConcurrentCalls == 2
MaxCalls == 4

\* filepath.Join(pandocDir, binaryName)
BinaryPath == "confluence2md/pandoc-3.6.4/pandoc"

\* How a run of extractBinary can end: with the path, or at one of its
\* three error returns.
Extractions ==
    { [path |-> BinaryPath, err |-> "nil"],
      [path |-> "", err |-> "failed to create cache directory"],
      [path |-> "", err |-> "failed to write pandoc binary"],
      [path |-> "", err |-> "extracted binary verification failed"] }

\* The functions whose body begins with EnsureExtracted().
ThroughGuard == {"EnsureExtracted", "Run", "Convert"}

NoCall ==
    [op |-> "none", returned |-> FALSE, ran |-> FALSE, path |-> "", err |-> "nil",
     before |-> [done |-> FALSE, err |-> "nil", last |-> NoResult]]

\* Everything a step of package pandoc leaves alone outside the package.
outsidePandoc ==
    <<entry, pc, input, textLocals, preVars, mimeVars, extractVars, convVars, mainVars>>

\* Goroutine g returns (path, err) from its call.
Return(g, path, err) ==
    /\ gret' = [gret EXCEPT ![g].returned = TRUE, ![g].path = path, ![g].err = err]
    /\ result' = [returned |-> TRUE, op |-> gret[g].op, path |-> path, err |-> err]
    /\ gpc' = [gpc EXCEPT ![g] = "idle"]

\* Goroutine g calls op, having made fewer than max calls.
Begin(g, op, max) ==
    /\ gpc[g] = "idle"
    /\ gcalls[g] < max
    /\ gcalls' = [gcalls EXCEPT ![g] = @ + 1]
    /\ gret' = [gret EXCEPT ![g] =
                   [op |-> op, returned |-> FALSE, ran |-> FALSE, path |-> "", err |-> "nil",
                    before |-> [done |-> extractOnce.done, err |-> extractErr,
                                last |-> result]]]
    /\ gpc' = [gpc EXCEPT ![g] =
                   CASE op \in ThroughGuard -> "once"
                     [] op = "GetPath" -> "getpath"
                     [] op = "Cleanup" -> "cleanup"]
    /\ UNCHANGED <<outsidePandoc, result, extractOnce, extractedPath, extractErr, disk, runs>>

\* extractOnce.Do: the read of `done` outside the lock.
OnceFast(g) ==
    /\ gpc[g] = "once"
    /\ gpc' = [gpc EXCEPT ![g] = IF extractOnce.done THEN "ret" ELSE "lock"]
    /\ UNCHANGED <<outsidePandoc, result, extractOnce, extractedPath, extractErr, disk, runs,
                   gret, gcalls>>

\* extractOnce.Do: o.m.Lock()
OnceLock(g) ==
    /\ gpc[g] = "lock"
    /\ extractOnce.m = 0
    /\ extractOnce' = [extractOnce EXCEPT !.m = g]
    /\ gpc' = [gpc EXCEPT ![g] = "locked"]
    /\ UNCHANGED <<outsidePandoc, result, extractedPath, extractErr, disk, runs, gret, gcalls>>

\* What the mutant of OnceCheck does: it enters extractBinary without
\* reading `done` again.
OnceCheckBlind(g) ==
    /\ gpc[g] = "locked"
    /\ runs' = runs + 1
    /\ gret' = [gret EXCEPT ![g].ran = TRUE]
    /\ gpc' = [gpc EXCEPT ![g] = "extract"]
    /\ UNCHANGED <<outsidePandoc, result, extractOnce, extractedPath, extractErr, disk, gcalls>>

\* extractOnce.Do: under the lock, `done` is read again; when it is set the
\* lock is released, else the function literal is entered.
OnceCheck(g) ==
    /\ gpc[g] = "locked"
    /\ IF extractOnce.done
       THEN /\ extractOnce' = [extractOnce EXCEPT !.m = 0]
            /\ gpc' = [gpc EXCEPT ![g] = "ret"]
            /\ UNCHANGED <<runs, gret>>
       ELSE /\ runs' = runs + 1
            /\ gret' = [gret EXCEPT ![g].ran = TRUE]
            /\ gpc' = [gpc EXCEPT ![g] = "extract"]
            /\ UNCHANGED extractOnce
    /\ UNCHANGED <<outsidePandoc, result, extractedPath, extractErr, disk, gcalls>>

\* extractedPath, extractErr = extractBinary(): the binary is on disk
\* afterwards exactly when the run succeeded (every error return after the
\* check of the cache directory removes it or failed to write it; a failed
\* os.MkdirAll leaves the disk as it was).
ExtractBinary(g) ==
    /\ gpc[g] = "extract"
    /\ \E x \in Extractions :
           /\ extractedPath' = x.path
           /\ extractErr' = x.err
           /\ disk' = IF x.err = "failed to create cache directory" THEN disk
                      ELSE x.err = "nil"
    /\ gpc' = [gpc EXCEPT ![g] = "ran"]
    /\ UNCHANGED <<outsidePandoc, result, extractOnce, runs, gret, gcalls>>

\* What the mutant of OnceDone does: it marks the guard done only when
\* extractBinary succeeded.
OnceDoneOnSuccess(g) ==
    /\ gpc[g] = "ran"
    /\ extractOnce' = [done |-> extractErr = "nil", m |-> 0]
    /\ gpc' = [gpc EXCEPT ![g] = "ret"]
    /\ UNCHANGED <<outsidePandoc, result, extractedPath, extractErr, disk, runs, gret, gcalls>>

\* extractOnce.Do: the deferred o.done.Store(1) and o.m.Unlock().
OnceDone(g) ==
    /\ gpc[g] = "ran"
    /\ extractOnce' = [done |-> TRUE, m |-> 0]
    /\ gpc' = [gpc EXCEPT ![g] = "ret"]
    /\ UNCHANGED <<outsidePandoc, result, extractedPath, extractErr, disk, runs, gret, gcalls>>

\* After extractOnce.Do: EnsureExtracted returns the two variables; Run
\* and Convert return the wrapped error, or run the binary at the path.
GuardReturn(g) ==
    /\ gpc[g] = "ret"
    /\ IF gret[g].op = "EnsureExtracted"
       THEN Return(g, extractedPath, extractErr)
       ELSE IF extractErr # "nil"
       THEN Return(g, "", <<"failed to extract pandoc", extractErr>>)
       ELSE Return(g, extractedPath, "nil")
    /\ UNCHANGED <<outsidePandoc, extractOnce, extractedPath, extractErr, disk, runs, gcalls>>

\* GetPath
GetPath(g) ==
    /\ gpc[g] = "getpath"
    /\ Return(g, extractedPath, "nil")
    /\ UNCHANGED <<outsidePandoc, extractOnce, extractedPath, extractErr, disk, runs, gcalls>>

\* Cleanup: the test of extractedPath and the first return.
CleanupCheck(g) ==
    /\ gpc[g] = "cleanup"
    /\ IF extractedPath = ""
       THEN Return(g, "", "nil")
       ELSE /\ gpc' = [gpc EXCEPT ![g] = "remove"]
            /\ UNCHANGED <<result, gret>>
    /\ UNCHANGED <<outsidePandoc, extractOnce, extractedPath, extractErr, disk, runs, gcalls>>

\* Cleanup: os.RemoveAll(dir), which can fail.
CleanupRemove(g) ==
    /\ gpc[g] = "remove"
    /\ \/ /\ Return(g, "", "failed to cleanup pandoc")
          /\ UNCHANGED disk
       \/ /\ disk' = FALSE
          /\ gpc' = [gpc EXCEPT ![g] = "reset"]
          /\ UNCHANGED <<result, gret>>
    /\ UNCHANGED <<outsidePandoc, extractOnce, extractedPath, extractErr, runs, gcalls>>

\* Cleanup: extractedPath = "", extractOnce = sync.Once{}, return nil.
CleanupReset(g) ==
    /\ gpc[g] = "reset"
    /\ extractedPath' = ""
    /\ extractOnce' = [done |-> FALSE, m |-> 0]
    /\ Return(g, "", "nil")
    /\ UNCHANGED <<outsidePandoc, extractErr, disk, runs, gcalls>>

\* The package as it is initialized, with n goroutines about to call it.
InitPandoc(n) ==
    /\ entry = "pandoc"
    /\ pc = "goroutines"
    /\ input = << >>
    /\ md = << >>
    /\ iters = 0
    /\ html = << >>
    /\ todo = {}
    /\ call = 0
    /\ first = << >>
    /\ PreIdle
    /\ MimeIdle
    /\ result = NoResult
    /\ ExtractIdle
    /\ ConvIdle
    /\ MainIdle
    /\ extractOnce = [done |-> FALSE, m |-> 0]
    /\ extractedPath = ""
    /\ extractErr = "nil"
    /\ disk \in BOOLEAN
    /\ runs = 0
    /\ gpc = [g \in 1..n |-> "idle"]
    /\ gret = [g \in 1..n |-> NoCall]
    /\ gcalls = [g \in 1..n |-> 0]

\* The steps of a call through the guard.
GuardStep(g) ==
    \/ OnceFast(g)
    \/ OnceLock(g)
    \/ OnceCheck(g)
    \/ ExtractBinary(g)
    \/ OnceDone(g)
    \/ GuardReturn(g)

\* Several goroutines calling EnsureExtracted, and nothing else.
InitOnce == InitPandoc(NumGoroutines)

NextOnce ==
    \E g \in DOMAIN gpc :
        \/ Begin(g, "EnsureExtracted", MaxConcurrentCalls)
        \/ GuardStep(g)

SpecOnce == InitOnce /\ [][NextOnce]_vars

\* One goroutine calling the functions of the package in any order.
InitGuard == InitPandoc(1)

NextGuard ==
    \E g \in DOMAIN gpc :
        \/ \E op \in ThroughGuard \cup {"GetPath", "Cleanup"} : Begin(g, op, MaxCalls)
        \/ GuardStep(g)
        \/ GetPath(g)
        \/ CleanupCheck(g)
        \/ CleanupRemove(g)
        \/ CleanupReset(g)

SpecGuard == InitGuard /\ [][NextGuard]_vars

\* Several goroutines calling EnsureExtracted and Cleanup, which share
\* extractedPath and extractOnce without a lock of their own.  A Cleanup
\* that overwrites extractOnce while a goroutine is inside Do frees the
\* mutex of the guard under it.
NumRacers == 2

InitRace == InitPandoc(NumRacers)

NextRace ==
    \E g \in DOMAIN gpc :
        \/ \E op \in {"EnsureExtracted", "Cleanup"} : Begin(g, op, MaxConcurrentCalls)
        \/ GuardStep(g)
        \/ CleanupCheck(g)
        \/ CleanupRemove(g)
        \/ CleanupReset(g)

SpecRace == InitRace /\ [][NextRace]_vars

----------------------------------------------------------------------------
(* package main: convertFile and convertDirectory                          *)
(*                                                                         *)
(* A .doc file is described by what each stage of convertFile meets on     *)
(* it: os.Stat, IsConfluenceMIME, ExtractHTMLFromMIME,                     *)
(* ConvertHTMLToMarkdown and os.WriteFile.  The file at an output path is  *)
(* "absent", "old" (there before the run), "new" (written in full) or      *)
(* "partial" (os.WriteFile failed after creating or truncating it).        *)

MaxDocs == 3

\* What can be wrong with a file: the first stage that fails on it.
Failures ==
    {"none", "does not exist", "permission denied", "unreadable", "not Confluence",
     "extract", "convert", "write"}

\* The file on which the stage `failure` is the first to fail.  A file
\* os.Stat may not look at cannot be opened either.
Doc(failure) ==
    [stat |-> CASE failure = "does not exist" -> "not exist"
                [] failure = "permission denied" -> "permission"
                [] OTHER -> "nil",
     sniff |-> CASE failure \in {"permission denied", "unreadable"} ->
                        [is |-> FALSE, err |-> "failed to open or read file"]
                 [] failure = "not Confluence" -> [is |-> FALSE, err |-> "nil"]
                 [] OTHER -> [is |-> TRUE, err |-> "nil"],
     extract |-> IF failure = "extract" THEN "no HTML content found" ELSE "nil",
     convert |-> IF failure = "convert" THEN "pandoc conversion failed" ELSE "nil",
     write |-> IF failure = "write" THEN "permission denied" ELSE "nil"]

Docs == {Doc(failure) : failure \in Failures}

\* The files filepath.Glob can hand out: those that are in the directory.
GlobbedDocs == {d \in Docs : d.stat # "not exist"}

\* The sequences of at most n files taken from S.
DocSeqs(S, n) == UNION {[1..k -> S] : k \in 0..n}

StagesInOrder == <<"stat", "sniff", "extract", "convert", "write">>

\* convertFile returns err: to its caller when it was called alone, and
\* into the second loop of convertDirectory, which counts the successes.
FileReturn(err) ==
    IF entry = "convertFile"
    THEN /\ result' = [returned |-> TRUE, err |-> err]
         /\ pc' = "done"
         /\ UNCHANGED <<successCount, fileIdx>>
    ELSE /\ successCount' = IF err = "nil" THEN successCount + 1 ELSE successCount
         /\ fileIdx' = fileIdx + 1
         /\ pc' = "loop"
         /\ UNCHANGED result

\* What no step of package main changes.
outsideMain ==
    <<entry, input, textLocals, preVars, mimeVars, extractVars, convVars, pandocVars,
      dryRun, dir>>

\* convertFile: the dry-run return.
FileDryRun ==
    /\ pc = "dryrun"
    /\ IF dryRun
       THEN FileReturn("nil")
       ELSE /\ pc' = "stat"
            /\ UNCHANGED <<result, successCount, fileIdx>>
    /\ UNCHANGED <<outsideMain, outputs, attempts, matchIdx, confluenceFiles, inputPath, steps>>

\* convertFile: os.Stat and os.IsNotExist.
FileStat ==
    /\ pc = "stat"
    /\ steps' = Append(steps, "stat")
    /\ IF dir.files[inputPath].stat = "not exist"
       THEN FileReturn("input file does not exist")
       ELSE /\ pc' = "sniff"
            /\ UNCHANGED <<result, successCount, fileIdx>>
    /\ UNCHANGED <<outsideMain, outputs, attempts, matchIdx, confluenceFiles, inputPath>>

\* What the mutant of FileSniff does: it goes on whatever the sniff said.
FileSniffAnyFormat ==
    /\ pc = "sniff"
    /\ steps' = Append(steps, "sniff")
    /\ IF dir.files[inputPath].sniff.err # "nil"
       THEN FileReturn(<<"failed to check file format", dir.files[inputPath].sniff.err>>)
       ELSE /\ pc' = "extract"
            /\ UNCHANGED <<result, successCount, fileIdx>>
    /\ UNCHANGED <<outsideMain, outputs, attempts, matchIdx, confluenceFiles, inputPath>>

\* convertFile: converter.IsConfluenceMIME and the two returns after it.
FileSniff ==
    /\ pc = "sniff"
    /\ steps' = Append(steps, "sniff")
    /\ LET sniff == dir.files[inputPath].sniff
       IN  IF sniff.err # "nil"
           THEN FileReturn(<<"failed to check file format", sniff.err>>)
           ELSE IF ~sniff.is
           THEN FileReturn("file does not appear to be a Confluence MIME export")
           ELSE /\ pc' = "extract"
                /\ UNCHANGED <<result, successCount, fileIdx>>
    /\ UNCHANGED <<outsideMain, outputs, attempts, matchIdx, confluenceFiles, inputPath>>

\* convertFile: converter.ExtractHTMLFromMIME
FileExtract ==
    /\ pc = "extract"
    /\ steps' = Append(steps, "extract")
    /\ IF dir.files[inputPath].extract # "nil"
       THEN FileReturn(<<"failed to extract HTML", dir.files[inputPath].extract>>)
       ELSE /\ pc' = "convert"
            /\ UNCHANGED <<result, successCount, fileIdx>>
    /\ UNCHANGED <<outsideMain, outputs, attempts, matchIdx, confluenceFiles, inputPath>>

\* convertFile: converter.ConvertHTMLToMarkdown
FileConvert ==
    /\ pc = "convert"
    /\ steps' = Append(steps, "convert")
    /\ IF dir.files[inputPath].convert # "nil"
       THEN FileReturn(<<"failed to convert to Markdown", dir.files[inputPath].convert>>)
       ELSE /\ pc' = "write"
            /\ UNCHANGED <<result, successCount, fileIdx>>
    /\ UNCHANGED <<outsideMain, outputs, attempts, matchIdx, confluenceFiles, inputPath>>

\* convertFile: os.WriteFile and the last return.  A failed os.WriteFile
\* has not touched the path, or has created or truncated it.
FileWrite ==
    /\ pc = "write"
    /\ steps' = Append(steps, "write")
    /\ IF dir.files[inputPath].write # "nil"
       THEN /\ \E left \in {outputs[inputPath], "partial"} :
                   outputs' = [outputs EXCEPT ![inputPath] = left]
            /\ FileReturn(<<"failed to write output", dir.files[inputPath].write>>)
       ELSE /\ outputs' = [outputs EXCEPT ![inputPath] = "new"]
            /\ FileReturn("nil")
    /\ UNCHANGED <<outsideMain, attempts, matchIdx, confluenceFiles, inputPath>>

\* The steps of convertFile.
FileStep ==
    \/ FileDryRun
    \/ FileStat
    \/ FileSniff
    \/ FileExtract
    \/ FileConvert
    \/ FileWrite

\* convertDirectory: filepath.Glob and the two returns after it.
DirGlob ==
    /\ pc = "glob"
    /\ IF dir.globErr
       THEN /\ result' = [returned |-> TRUE, err |-> <<"failed to glob directory", "syntax error in pattern">>]
            /\ pc' = "done"
       ELSE IF Len(dir.files) = 0
       THEN /\ result' = [returned |-> TRUE, err |-> "nil"]
            /\ pc' = "done"
       ELSE /\ pc' = "filter"
            /\ UNCHANGED result
    /\ UNCHANGED <<outsideMain, outputs, attempts, matchIdx, confluenceFiles, fileIdx,
                   successCount, inputPath, steps>>

\* convertDirectory: one turn of the loop over matches, and after its last
\* turn the return when no file was kept.
DirFilter ==
    /\ pc = "filter"
    /\ IF matchIdx <= Len(dir.files)
       THEN /\ matchIdx' = matchIdx + 1
            /\ LET sniff == dir.files[matchIdx].sniff
               IN  confluenceFiles' = IF sniff.err = "nil" /\ sniff.is
                                      THEN Append(confluenceFiles, matchIdx)
                                      ELSE confluenceFiles
            /\ UNCHANGED <<pc, result>>
       ELSE /\ IF Len(confluenceFiles) = 0
               THEN /\ result' = [returned |-> TRUE, err |-> "nil"]
                    /\ pc' = "done"
               ELSE /\ pc' = "loop"
                    /\ UNCHANGED result
            /\ UNCHANGED <<matchIdx, confluenceFiles>>
    /\ UNCHANGED <<outsideMain, outputs, attempts, fileIdx, successCount, inputPath, steps>>

\* What the mutant of DirLoop does: it returns at the first failed file.
DirLoopStopAtFailure ==
    /\ pc = "loop"
    /\ IF fileIdx <= Len(confluenceFiles) /\ successCount = fileIdx - 1
       THEN /\ inputPath' = confluenceFiles[fileIdx]
            /\ attempts' = [attempts EXCEPT ![confluenceFiles[fileIdx]] = @ + 1]
            /\ steps' = << >>
            /\ pc' = "dryrun"
            /\ UNCHANGED result
       ELSE /\ result' = [returned |-> TRUE, err |-> "nil"]
            /\ pc' = "done"
            /\ UNCHANGED <<inputPath, attempts, steps>>
    /\ UNCHANGED <<outsideMain, outputs, matchIdx, confluenceFiles, fileIdx, successCount>>

\* convertDirectory: one turn of the loop over confluenceFiles up to the
\* call of convertFile, and after its last turn the return.
DirLoop ==
    /\ pc = "loop"
    /\ IF fileIdx <= Len(confluenceFiles)
       THEN /\ inputPath' = confluenceFiles[fileIdx]
            /\ attempts' = [attempts EXCEPT ![confluenceFiles[fileIdx]] = @ + 1]
            /\ steps' = << >>
            /\ pc' = "dryrun"
            /\ UNCHANGED result
       ELSE /\ result' = [returned |-> TRUE, err |-> "nil"]
            /\ pc' = "done"
            /\ UNCHANGED <<inputPath, attempts, steps>>
    /\ UNCHANGED <<outsideMain, outputs, matchIdx, confluenceFiles, fileIdx, successCount>>

\* A call of package main on the files `files`.
InitMain(name, at, globErr, files) ==
    /\ entry = name
    /\ pc = at
    /\ input = << >>
    /\ md = << >>
    /\ iters = 0
    /\ html = << >>
    /\ todo = {}
    /\ call = 0
    /\ first = << >>
    /\ PreIdle
    /\ MimeIdle
    /\ result = NoResult
    /\ ExtractIdle
    /\ ConvIdle
    /\ PandocIdle
    /\ dryRun \in BOOLEAN
    /\ dir = [globErr |-> globErr, files |-> files]
    /\ outputs \in [1..Len(files) -> {"absent", "old"}]
    /\ attempts = [i \in 1..Len(files) |-> 0]
    /\ matchIdx = 1
    /\ confluenceFiles = << >>
    /\ fileIdx = 1
    /\ successCount = 0
    /\ steps = << >>

\* convertFile called on one path, which need not exist.
InitConvertFile ==
    /\ \E d \in Docs : InitMain("convertFile", "dryrun", FALSE, <<d>>)
    /\ inputPath = 1

NextConvertFile == FileStep

SpecConvertFile == InitConvertFile /\ [][NextConvertFile]_vars

\* convertDirectory called on a directory of at most MaxDocs .doc files,
\* or on one whose name makes a malformed pattern.
InitConvertDirectory ==
    /\ \E globErr \in BOOLEAN : \E files \in DocSeqs(GlobbedDocs, MaxDocs) :
           /\ globErr => files = << >>
           /\ InitMain("convertDirectory", "glob", globErr, files)
    /\ inputPath = 0

NextConvertDirectory ==
    \/ DirGlob
    \/ DirFilter
    \/ DirLoop
    \/ FileStep

SpecConvertDirectory == InitConvertDirectory /\ [][NextConvertDirectory]_vars

----------------------------------------------------------------------------
(* Properties of balanceDetailsTags                                        *)

Balanced(t) == StrCount(t, CloseTag) <= StrCount(t, OpenTag)

\* The offsets at which sub occurs in s.
Occurrences(s, sub) == {i \in 0..(Len(s) - Len(sub)) : HasAt(s, sub, i)}

\* s without the characters whose 1-based positions are not in keep.
RECURSIVE KeepFrom(_, _, _)
KeepFrom(s, keep, i) ==
    IF i > Len(s) THEN << >>
    ELSE (IF i \in keep THEN <<s[i]>> ELSE << >>) \o KeepFrom(s, keep, i + 1)

\* s with the close-marker occurrences at the offsets in S deleted.
WithoutCloseTagsAt(s, S) ==
    KeepFrom(s, {i \in 1..Len(s) : \A p \in S : ~(p < i /\ i <= p + Len(CloseTag))}, 1)

\* s after n deletions of its then-last close-marker.
RECURSIVE RightmostDeleted(_, _)
RightmostDeleted(s, n) ==
    IF n = 0 \/ LastIndex(s, CloseTag) = -1 THEN s
    ELSE RightmostDeleted(CutCloseTag(s, LastIndex(s, CloseTag)), n - 1)

\* C1: the text balanceDetailsTags returns has no more "</details>" than
\* "<details>", also when a deletion made the characters around it join
\* into a new close-marker.
C1_OutputBalanced ==
    (entry = "balanceDetailsTags" /\ pc = "done") => Balanced(md)

\* C1's case: a finished run that deleted more close-markers than the input
\* held, so some deletion formed a new one.
C1_Witness ==
    /\ entry = "balanceDetailsTags"
    /\ pc = "done"
    /\ iters > StrCount(input, CloseTag)

\* C2: each iteration removes exactly the characters of one "</details>"
\* occurrence, every "<details>" occurrence present before the deletion is
\* present after it (at its offset, moved left when it stood behind the
\* deletion), and the output holds at least as many "<details>" as the input.
C2_OnlyCloseTagsRemoved ==
    /\ [][ (entry = "balanceDetailsTags" /\ md' # md) =>
             \E i \in Occurrences(md, CloseTag) :
                /\ md' = Slice(md, 0, i) \o Slice(md, i + Len(CloseTag), Len(md))
                /\ \A j \in Occurrences(md, OpenTag) :
                      HasAt(md', OpenTag, IF j < i THEN j ELSE j - Len(CloseTag))
         ]_vars
    /\ [](entry = "balanceDetailsTags" =>
             StrCount(md, OpenTag) >= StrCount(input, OpenTag))

\* C2's case: a close-marker was deleted from a text with an open-marker
\* behind it and one before it.
C2_Witness ==
    /\ entry = "balanceDetailsTags"
    /\ pc = "done"
    /\ iters >= 1
    /\ \E i \in Occurrences(input, CloseTag) :
          /\ md = Slice(input, 0, i) \o Slice(input, i + Len(CloseTag), Len(input))
          /\ \E j \in Occurrences(input, OpenTag) : j > i

\* C3 as stated: no text got from the input by deleting fewer close-marker
\* occurrences than balanceDetailsTags deleted is balanced.
C3_DeletesMinimum ==
    (entry = "balanceDetailsTags" /\ pc = "done") =>
        \A S \in SUBSET Occurrences(input, CloseTag) :
            Cardinality(S) < iters => ~Balanced(WithoutCloseTagsAt(input, S))

\* C3 as amended: balanceDetailsTags stops at the first balanced text of its
\* own rightmost-first deletions (after any smaller number of them the text
\* is unbalanced), and when none of its deletions formed a marker it deleted
\* exactly max(0, closers - openers) of them.
C3_StopsAtFirstBalanced ==
    entry = "balanceDetailsTags" =>
        /\ \A n \in 0..(iters - 1) : ~Balanced(RightmostDeleted(input, n))
        /\ ( /\ pc = "done"
             /\ StrCount(md, OpenTag) = StrCount(input, OpenTag)
             /\ StrCount(md, CloseTag) = StrCount(input, CloseTag) - iters )
           => iters = IF Balanced(input) THEN 0
                      ELSE StrCount(input, CloseTag) - StrCount(input, OpenTag)

\* C3's case: a finished run of two or more deletions, none forming a marker.
C3_Witness ==
    /\ entry = "balanceDetailsTags"
    /\ pc = "done"
    /\ iters >= 2
    /\ StrCount(input, OpenTag) >= 1
    /\ StrCount(md, OpenTag) = StrCount(input, OpenTag)
    /\ StrCount(md, CloseTag) = StrCount(input, CloseTag) - iters

\* C4: every iteration that does not exit shortens the text by the length
\* of one "</details>", so the loop makes at most len(input)/len("</details>")
\* deletions, an exit is reached, and the output is no longer than the input.
C4_LoopShortens ==
    entry = "balanceDetailsTags" =>
        /\ Len(md) = Len(input) - iters * Len(CloseTag)
        /\ iters <= Len(input) \div Len(CloseTag)
        /\ Len(md) <= Len(input)
        /\ pc \in {"balance", "done"}
        /\ (pc = "balance" /\ iters = Len(input) \div Len(CloseTag)) => Balanced(md)

\* C4's case: a finished run of as many deletions as the input's length allows.
C4_Witness ==
    /\ entry = "balanceDetailsTags"
    /\ pc = "done"
    /\ iters >= 2
    /\ iters = Len(input) \div Len(CloseTag)

----------------------------------------------------------------------------
(* Properties of postProcessMarkdown                                       *)

\* C5: the text postProcessMarkdown returns has no more "</details>" than
\* "<details>": it is so when balanceDetailsTags is left, and no shortcode
\* substitution behind it makes a close-marker or unmakes an open-marker.
C5_FinalTextBalanced ==
    (entry = "postProcessMarkdown" /\ pc \in {"emoji", "done"}) => Balanced(md)

\* C5's case: a run that deleted a close-marker and then replaced a
\* shortcode standing between the two halves of a close-marker.
C5_Witness ==
    /\ entry = "postProcessMarkdown"
    /\ pc = "done"
    /\ iters >= 1
    /\ Contains(input, <<"t", ":", "f", "i", "r", "e", ":", "a">>)
    /\ ~Contains(md, <<":", "f", "i", "r", "e", ":">>)

\* C6: the text postProcessMarkdown returns ends in exactly one newline: its
\* last character is a newline, and the one before it, if there is one, is
\* no newline and no other white space.
C6_OneTrailingNewline ==
    (entry = "postProcessMarkdown" /\ pc = "done") =>
        /\ Len(md) >= 1
        /\ md[Len(md)] = "\n"
        /\ Len(md) >= 2 => md[Len(md) - 1] \notin UnicodeSpace

----------------------------------------------------------------------------
(* Properties of decodeHTMLEntities                                        *)

\* The texts parts[ps[1]], parts[ps[2]], ... joined.
RECURSIVE Joined(_, _)
Joined(parts, ps) ==
    IF ps = << >> THEN << >> ELSE parts[Head(ps)] \o Joined(parts, Tail(ps))

\* Every sequence of at most n indices of `parts`.
PartChoices(parts, n) == UNION {[1..k -> DOMAIN parts] : k \in 0..n}

\* The table applied in the order of the map literal, from entry k on.
RECURSIVE TableInSourceOrder(_, _)
TableInSourceOrder(s, k) ==
    IF k > Len(htmlEntityMap) THEN s
    ELSE TableInSourceOrder(
             ReplaceAll(s, htmlEntityMap[k].entity, <<htmlEntityMap[k].char>>), k + 1)

\* What each member of NumericParts is to become: "&#126;" and "&#x7E;"
\* (value 126) the character "~", every other one itself.
NumericExpected ==
    << <<"~">>,
       <<"&", "#", "1", "2", "7", ";">>,
       <<"&", "#", "1", "2", "8", ";">>,
       <<"&", "#", "2", "0", "0", ";">>,
       <<"&", "#", "x", "C", "8", ";">>,
       <<"~">>,
       <<"&", "#", "0", ";">>,
       <<"&", "#", "4", "2", "9", "4", "9", "6", "7", "3", "6", "1", ";">>,
       <<"&", "#", "1", "2">>,
       <<"&", "#", "x", ";">> >>

\* C7: an input that holds neither "&lt;" nor "&#" is returned as it is,
\* whatever other entities of the table it holds.
C7_NoOpWithoutLtOrNumeric ==
    ( /\ entry = "decodeHTMLEntities"
      /\ call = 1
      /\ ~Contains(input, <<"&", "l", "t", ";">>)
      /\ ~Contains(input, <<"&", "#">>) )
    => html = input

\* C7's case: a call has returned an input that holds "&amp;" and "&gt;", and
\* neither "&lt;" nor "&#".
C7_Witness ==
    /\ entry = "decodeHTMLEntities"
    /\ call = 1
    /\ pc = "return"
    /\ Contains(input, <<"&", "a", "m", "p", ";">>)
    /\ Contains(input, <<"&", "g", "t", ";">>)
    /\ ~Contains(input, <<"&", "l", "t", ";">>)
    /\ ~Contains(input, <<"&", "#">>)
    /\ html = input

\* C8: a numeric reference is decoded to its character only when its value
\* is above 0 and below 127 ("&#126;" becomes "~"); a reference of value 0,
\* of value 127 or more, of a value beyond 32 bits, or malformed, is in the
\* output as it was in the input.
C8_NumericOnlyBelow127 ==
    (entry = "decodeHTMLEntities" /\ call = 1 /\ pc = "return") =>
        \A ps \in PartChoices(NumericParts, MaxNumericParts) :
            input = Joined(NumericParts, ps) => html = Joined(NumericExpected, ps)

\* C8's case: the call on "&#126;&#127;" has returned "~&#127;".
C8_Witness ==
    /\ entry = "decodeHTMLEntities"
    /\ call = 1
    /\ pc = "return"
    /\ input = NumericParts[1] \o NumericParts[2]
    /\ html = <<"~">> \o NumericParts[2]

\* C9: whatever order the range visits the twelve entries of htmlEntityMap
\* in, the text after the range is the same: the one the order of the map
\* literal gives.
C9_TableOrderIrrelevant ==
    (entry = "decodeHTMLEntities" /\ call = 1 /\ pc = "table" /\ todo = {}) =>
        html = TableInSourceOrder(input, 1)

\* C10 as stated: a second call returns what the first call returned.
C10_Idempotent ==
    (entry = "decodeHTMLEntities" /\ call = 2 /\ pc = "return") => html = first

\* C10 as amended: a second call returns what the first call returned
\* whenever that text holds neither "&lt;" nor "&#".
C10_IdempotentOnDecoded ==
    ( /\ entry = "decodeHTMLEntities"
      /\ call = 2
      /\ pc = "return"
      /\ ~Contains(first, <<"&", "l", "t", ";">>)
      /\ ~Contains(first, <<"&", "#">>) )
    => html = first

\* C10's case: the first call decoded something and left an "&" in its
\* result, and the second call has returned that result.
C10_Witness ==
    /\ entry = "decodeHTMLEntities"
    /\ call = 2
    /\ pc = "return"
    /\ first # input
    /\ Contains(first, <<"&", "a", "m", "p", ";">>)
    /\ html = first

----------------------------------------------------------------------------
(* Properties of preProcessHTML                                            *)

\* s with the n last occurrences of "</div>" deleted.
RECURSIVE LastDivsDeleted(_, _)
LastDivsDeleted(s, n) ==
    LET i == LastIndex(s, CloseDiv)
    IN  IF n = 0 \/ i = -1 THEN s
        ELSE LastDivsDeleted(Slice(s, 0, i), n - 1) \o Slice(s, i + Len(CloseDiv), Len(s))

\* C11: the text preProcessHTML returns has no more "</div>" than "<div",
\* also when a deletion made the characters around it join into a new
\* "</div>".
C11_DivsBalanced ==
    (entry = "preProcessHTML" /\ pc = "done") =>
        StrCount(html, CloseDiv) <= StrCount(html, DivOpen)

\* C12: with k openers and m > k closers in the text, preProcessHTML deletes
\* the last m-k closers and leaves the first k where they were.
C12_RightmostDivsDeleted ==
    (entry = "preProcessHTML" /\ pc = "done") =>
        LET k == StrCount(input, DivOpen)
            m == StrCount(input, CloseDiv)
        IN  html = LastDivsDeleted(input, IF m > k THEN m - k ELSE 0)

----------------------------------------------------------------------------
(* Properties of IsConfluenceMIME                                          *)

\* The lines of the file that are in the scan window.
Window == SubSeq(file.lines, 1, IF Len(file.lines) < mimeHeaderScanLimit
                                THEN Len(file.lines) ELSE mimeHeaderScanLimit)

\* Among the given lines there is one beginning with "Date:", one beginning
\* with "MIME-Version:" and one containing "Exported From Confluence".
HasMarkers(lines) ==
    /\ \E i \in DOMAIN lines : HasPrefix(lines[i].text, DateHeader)
    /\ \E i \in DOMAIN lines : HasPrefix(lines[i].text, MIMEVersionHeader)
    /\ \E i \in DOMAIN lines : Contains(lines[i].text, ConfluenceSubject)

\* The file opens, no read of it fails, and every line of the scan window
\* fits the scanner's buffer.
Readable ==
    /\ file.opens
    /\ file.failAt = -1
    /\ \A i \in DOMAIN Window : LineLen(Window[i]) < MaxScanTokenSize

\* C13: for a readable file the result is (true, nil) exactly when the
\* three markers are among the first 10 lines; lines from the 11th on do
\* not change it.
C13_TrueIffMarkersInWindow ==
    (entry = "IsConfluenceMIME" /\ pc = "done" /\ Readable) =>
        ((result.ok /\ result.err = "nil") <=> HasMarkers(Window))

\* C14: a file that cannot be opened, or a read that fails while the lines
\* are scanned, gives (false, non-nil error); (false, nil) is returned only
\* when the file opened, the scanner met no error, and the lines that were
\* looked at lack one of the three markers.
C14_ErrorNotConflated ==
    (entry = "IsConfluenceMIME" /\ pc = "done") =>
        /\ ~file.opens => (~result.ok /\ result.err = "failed to open file")
        /\ (file.opens /\ scanErr # "nil") =>
               (~result.ok /\ result.err = "failed to read file")
        /\ ( /\ file.opens
             /\ file.failAt \in 0..mimeHeaderScanLimit
             /\ \A i \in 1..file.failAt : LineLen(file.lines[i]) < MaxScanTokenSize )
           => (~result.ok /\ result.err = "failed to read file")
        /\ (~result.ok /\ result.err = "nil") =>
               /\ file.opens
               /\ scanErr = "nil"
               /\ ~HasMarkers(SubSeq(file.lines, 1, lineCount))

\* C14's case: the three markers are in the scan window, the read after the
\* 10th line failed, and the call returned the error.
C14_Witness ==
    /\ entry = "IsConfluenceMIME"
    /\ pc = "done"
    /\ file.opens
    /\ file.failAt = mimeHeaderScanLimit
    /\ HasMarkers(Window)
    /\ hasDateHeader /\ hasMIMEVersion /\ hasConfluenceSubject
    /\ ~result.ok
    /\ result.err = "failed to read file"

----------------------------------------------------------------------------
(* Properties of ExtractHTMLFromMIME                                       *)

\* The file opened and mail.ReadMessage and mime.ParseMediaType succeeded.
HeaderParsed == msg.opens /\ msg.parses /\ ~msg.contentType.err

\* The top-level Content-Type is multipart/* and has a boundary.
IsMultipart ==
    /\ HasPrefix(msg.contentType.mediaType, MultipartPrefix)
    /\ msg.contentType.boundary # << >>

\* C15: when the top-level Content-Type is not multipart/* or has no
\* boundary, the call returns an error and the empty text and has read no
\* part; when a multipart message ends (io.EOF) without a text/html part
\* the call returns the empty text and the error "no text/html part found
\* in MIME message".
C15_FormatErrors ==
    (entry = "ExtractHTMLFromMIME" /\ pc = "done" /\ HeaderParsed) =>
        /\ ~IsMultipart =>
               (result.err # "nil" /\ result.text = << >> /\ partsRead = 0)
        /\ ( /\ IsMultipart
             /\ msg.eof
             /\ \A i \in DOMAIN msg.parts : msg.parts[i].mediaType # TextHTML )
           => ( /\ result.err = "no text/html part found in MIME message"
                /\ result.text = << >> )

\* C15's case: a multipart message of two parts, neither text/html, was
\* read to its end and the call returned the error.
C15_Witness ==
    /\ entry = "ExtractHTMLFromMIME"
    /\ pc = "done"
    /\ HeaderParsed
    /\ IsMultipart
    /\ Len(msg.parts) = 2
    /\ partsRead = 3
    /\ result.err = "no text/html part found in MIME message"
    /\ result.text = << >>

----------------------------------------------------------------------------
(* Properties of ConvertHTMLToMarkdown                                     *)

\* The pandoc process was started and did not exit with success.
ConverterFailed ==
    \/ proc = "killed"
    \/ proc = "exited" /\ world.behaviour = "exits 1"

\* C16: the stages run are a beginning of pre-process, pandoc,
\* post-process, each at most once; a call whose converter failed returns
\* an error and the empty string and has not run post-processing; no error
\* comes with a text.
C16_PipelineOrder ==
    entry = "ConvertHTMLToMarkdown" =>
        /\ \E n \in 0..Len(Pipeline) : stages = SubSeq(Pipeline, 1, n)
        /\ pc = "done" =>
               /\ ConverterFailed =>
                      /\ result.err # "nil"
                      /\ result.text = << >>
                      /\ stages = SubSeq(Pipeline, 1, 2)
               /\ result.err # "nil" => result.text = << >>
               /\ result.err = "nil" =>
                      /\ stages = Pipeline
                      /\ result.text = <<"postProcessMarkdown",
                                         <<"pandoc", <<"preProcessHTML", input>>>>>>

\* C16's case: the converter exited with failure and the call returned.
C16_Witness ==
    /\ entry = "ConvertHTMLToMarkdown"
    /\ pc = "done"
    /\ proc = "exited"
    /\ world.behaviour = "exits 1"
    /\ stages = <<"preProcessHTML", "pandoc">>
    /\ result.err # "nil"
    /\ result.text = << >>

\* C17: a call is never still waiting for a converter that never exits
\* when more than pandocTimeout has passed since the call began, on the
\* embedded path and on the system-pandoc path.
C17_BoundedWait ==
    ( /\ entry = "ConvertHTMLToMarkdown"
      /\ world.behaviour = "never exits"
      /\ pc = "wait" )
    => elapsed <= pandocTimeout

----------------------------------------------------------------------------
(* Properties of package pandoc                                            *)

\* The goroutines whose call has returned.
Returned == {g \in DOMAIN gret : gret[g].returned}

\* C18: with goroutines calling EnsureExtracted concurrently and no
\* Cleanup, extractBinary is entered at most once, no call has returned
\* while that run is under way or not yet published, and all calls that
\* have returned got the same path and the same error.
C18_SingleFlight ==
    entry = "pandoc" =>
        /\ runs <= 1
        /\ Returned # {} =>
               /\ extractOnce.done
               /\ runs = 1
               /\ \A g \in DOMAIN gpc : gpc[g] \notin {"extract", "ran"}
        /\ \A g, h \in Returned :
               gret[g].path = gret[h].path /\ gret[g].err = gret[h].err

\* C18's case: every goroutine has made all its calls, one of them ran
\* extractBinary and another went for the lock and found the work done.
C18_Witness ==
    /\ entry = "pandoc"
    /\ DOMAIN gpc = 1..NumGoroutines
    /\ \A g \in DOMAIN gpc : gpc[g] = "idle" /\ gcalls[g] = MaxConcurrentCalls
    /\ runs = 1
    /\ Returned = DOMAIN gpc
    /\ \A g \in DOMAIN gpc : gret[g].err = "failed to write pandoc binary"

\* The calls through the guard that began after an extraction attempt had
\* failed and have returned.  extractErr is written by extractBinary's
\* caller alone, and Cleanup resets the guard only when extractedPath is
\* set, that is after a success: a non-nil extractErr at the beginning of
\* a call is a failure that no Cleanup has reset.
AfterFailure ==
    {g \in Returned : gret[g].op \in ThroughGuard /\ gret[g].before.err # "nil"}

\* C19: a call of EnsureExtracted, Run or Convert made after an extraction
\* attempt has failed, with no reset of the guard since, does not run
\* extractBinary, and returns the empty path with the error of that
\* attempt (wrapped, for Run and Convert).
C19_FailureCached ==
    \A g \in AfterFailure :
        /\ ~gret[g].ran
        /\ gret[g].path = ""
        /\ gret[g].err = IF gret[g].op = "EnsureExtracted"
                         THEN gret[g].before.err
                         ELSE <<"failed to extract pandoc", gret[g].before.err>>

\* C19's case: the one extraction failed at the verification, a Cleanup
\* was called after it, and a Convert called after both has returned.
C19_Witness ==
    /\ entry = "pandoc"
    /\ runs = 1
    /\ 1 \in AfterFailure
    /\ gret[1].op = "Convert"
    /\ gret[1].before.err = "extracted binary verification failed"
    /\ gret[1].before.last.op = "Cleanup"

\* The calls that began right after a Cleanup had returned nil, and have
\* returned.
AfterCleanup ==
    {g \in Returned : /\ gret[g].before.last.returned
                      /\ gret[g].before.last.op = "Cleanup"
                      /\ gret[g].before.last.err = "nil"}

\* C20: after a Cleanup that returned nil, GetPath returns the empty
\* string and the next EnsureExtracted runs extractBinary again, whatever
\* the guard had cached before the Cleanup.
C20_CleanupInvalidates ==
    \A g \in AfterCleanup :
        /\ gret[g].op = "GetPath" => gret[g].path = ""
        /\ gret[g].op = "EnsureExtracted" => gret[g].ran

----------------------------------------------------------------------------
(* Properties of package main                                              *)

\* The file convertFile is or was last working on, and the file at its
\* output path.
TheDoc == dir.files[inputPath]
TheOutput == outputs[inputPath]

\* Every stage before the write succeeded on the file.
StagesSucceeded(d) ==
    /\ d.stat = "nil"
    /\ d.sniff = [is |-> TRUE, err |-> "nil"]
    /\ d.extract = "nil"
    /\ d.convert = "nil"

\* C21: convertFile touches the output path only in a run without dryRun
\* in which the stat, the sniff, the extraction and the conversion ran in
\* this order and succeeded, and then as the last thing it does; in a dry
\* run and after a failed stage the file at the output path is as it was
\* before the call, and after a failed stage the error returned is not nil.
C21_WriteLast ==
    entry = "convertFile" =>
        /\ "write" \in {steps[i] : i \in 1..Len(steps)} =>
               /\ ~dryRun
               /\ steps = StagesInOrder
               /\ StagesSucceeded(TheDoc)
        /\ TheOutput \notin {"absent", "old"} => steps = StagesInOrder
        /\ result.returned /\ (dryRun \/ ~StagesSucceeded(TheDoc)) =>
               TheOutput \in {"absent", "old"}
        /\ result.returned /\ ~dryRun /\ ~StagesSucceeded(TheDoc) => result.err # "nil"

\* C21's case: a run without dryRun on which every stage succeeded has
\* returned nil, having written the output as its fifth and last stage.
C21_Witness ==
    /\ entry = "convertFile"
    /\ result.returned
    /\ result.err = "nil"
    /\ ~dryRun
    /\ steps = StagesInOrder
    /\ TheOutput = "new"

\* The files of the directory whose sniff gives (true, nil).
SniffPositive ==
    {i \in 1..Len(dir.files) : dir.files[i].sniff = [is |-> TRUE, err |-> "nil"]}

\* C22: when convertDirectory has returned after a glob that succeeded,
\* convertFile was called once on every file whose sniff gave (true, nil)
\* and on no other file, also on those that come after a file whose
\* conversion failed; successCount is at most the number of those files;
\* and the error returned is nil.
C22_IsolatesFailures ==
    entry = "convertDirectory" /\ result.returned /\ ~dir.globErr =>
        /\ \A i \in 1..Len(dir.files) : attempts[i] = IF i \in SniffPositive THEN 1 ELSE 0
        /\ successCount <= Cardinality(SniffPositive)
        /\ result.err = "nil"

\* C22 as stated, which says that convertDirectory returns nil on every
\* directory.
C22_AlwaysNil ==
    entry = "convertDirectory" /\ result.returned =>
        /\ \A i \in 1..Len(dir.files) : attempts[i] = IF i \in SniffPositive THEN 1 ELSE 0
        /\ successCount <= Cardinality(SniffPositive)
        /\ result.err = "nil"

\* C22's case: the first of three sniff-positive files failed in
\* convertFile, a later one was converted, a file that is no Confluence
\* export was skipped, and convertDirectory has returned.
C22_Witness ==
    /\ entry = "convertDirectory"
    /\ result.returned
    /\ ~dryRun
    /\ Len(dir.files) = MaxDocs
    /\ dir.files[1].extract # "nil"
    /\ ~dir.files[2].sniff.is
    /\ outputs[MaxDocs] = "new"
    /\ successCount = 1
    /\ attempts[1] = 1

----------------------------------------------------------------------------
(* More properties of balanceDetailsTags                                   *)

\* How many close-markers balanceDetailsTags has too many in s.
Excess(s) ==
    IF Balanced(s) THEN 0 ELSE StrCount(s, CloseTag) - StrCount(s, OpenTag)

\* None of the first n rightmost-first deletions on s makes the characters
\* around it form a marker: each takes one close-marker from the count and
\* leaves the count of open-markers alone.
NoMarkerFormed(s, n) ==
    \A j \in 1..n :
        LET was == RightmostDeleted(s, j - 1)
            is == RightmostDeleted(s, j)
        IN  /\ StrCount(is, CloseTag) = StrCount(was, CloseTag) - 1
            /\ StrCount(is, OpenTag) = StrCount(was, OpenTag)

\* The n greatest members of the set S of numbers.
RECURSIVE Greatest(_, _)
Greatest(S, n) ==
    IF n = 0 \/ S = {} THEN {}
    ELSE LET max == CHOOSE x \in S : \A y \in S : y <= x
         IN  {max} \cup Greatest(S \ {max}, n - 1)

\* C23: for an input with k open-markers and m close-markers on which no
\* deletion forms a marker, balanceDetailsTags returns the input with its
\* last m - k close-marker occurrences deleted and everything else,
\* the first k close-markers included, in place; for m <= k it returns
\* the input.
C23_DeletesFromTheRight ==
    (entry = "balanceDetailsTags" /\ pc = "done" /\ NoMarkerFormed(input, Excess(input))) =>
        /\ md = WithoutCloseTagsAt(input,
                     Greatest(Occurrences(input, CloseTag), Excess(input)))
        /\ Balanced(input) => md = input

\* C23's case: a finished run on an input with an open-marker, a
\* close-marker that stays and two that go, and no marker formed on the
\* way.
C23_Witness ==
    /\ entry = "balanceDetailsTags"
    /\ pc = "done"
    /\ StrCount(input, OpenTag) = 1
    /\ Excess(input) = 2
    /\ NoMarkerFormed(input, 2)
    /\ StrCount(md, CloseTag) = 1
    /\ iters = 2

----------------------------------------------------------------------------
(* More properties of postProcessMarkdown                                  *)

\* C24: the text postProcessMarkdown returns holds no three newlines in a
\* row.
C24_NoTripleNewline ==
    (entry = "postProcessMarkdown" /\ pc = "done") =>
        ~Contains(md, Newline \o Newline \o Newline)

----------------------------------------------------------------------------
(* Properties of preProcessHTML's image and span rules                     *)

\* Whether the span tags of s from offset `from` on are properly paired,
\* `depth` spans being open: every "</span>" closes an open span, every
\* "<span" is a tag with its ">", and no span is left open at the end.
RECURSIVE SpansPaired(_, _, _)
SpansPaired(s, from, depth) ==
    IF from >= Len(s) THEN depth = 0
    ELSE IF HasAt(s, SpanClose, from)
    THEN depth > 0 /\ SpansPaired(s, from + Len(SpanClose), depth - 1)
    ELSE IF HasAt(s, SpanOpen, from)
    THEN /\ IndexFrom(s, TagEnd, from + Len(SpanOpen)) # -1
         /\ SpansPaired(s, IndexFrom(s, TagEnd, from + Len(SpanOpen)) + 1, depth + 1)
    ELSE SpansPaired(s, from + 1, depth)

\* C25: for an input whose span tags are properly paired, nested ones
\* included, the text preProcessHTML returns holds no "<span" and no
\* "</span>".  Inputs with an image tag, which could swallow a span tag,
\* are left aside.
C25_NoSpanSurvives ==
    ( /\ entry = "preProcessHTML"
      /\ pc = "done"
      /\ SpansPaired(input, 0, 0)
      /\ ~Contains(input, ImgOpen) ) =>
        ~Contains(html, SpanOpen) /\ ~Contains(html, SpanClose)

\* The inputs that are one image tag: "<img", attributes taken from
\* TagParts, and ">".
ImageTags ==
    {ImgOpen \o attrs \o TagEnd :
        attrs \in Texts(SubSeq(TagParts, 2, 5), MaxTagParts - 2)}

\* The tag with src and alt alone that stands for the image tag t.
SrcAndAltOf(t) ==
    ImgOpen \o <<" ">> \o SrcAttr \o AttrValue(t, SrcAttr).value \o Quote
        \o <<" ">> \o AltAttr \o AttrValue(t, AltAttr).value \o Quote \o TagEnd

\* Whether a src can be extracted from the image tag t: it has a src
\* attribute and no src attribute of it is empty.
HasSrc(t) == Contains(t, SrcAttr) /\ ~Contains(t, SrcAttr \o Quote)

\* Whether none can: t has no src attribute, or only empty ones.
HasNoSrc(t) ==
    \A i \in Occurrences(t, SrcAttr) : HasAt(t, SrcAttr \o Quote, i)

\* C26: of an image tag with a non-empty src preProcessHTML returns the
\* tag with that src and the alt alone, and of an image tag with no src
\* attribute or an empty src value it returns nothing.
C26_ImagesNormalized ==
    (entry = "preProcessHTML" /\ pc = "done" /\ input \in ImageTags) =>
        /\ HasSrc(input) => html = SrcAndAltOf(input)
        /\ HasNoSrc(input) => html = << >>

----------------------------------------------------------------------------
(* Properties of postProcessMarkdown's emoji image rule                    *)

\* Whether the alt of an image tag with at most one alt attribute is a key
\* of the emoji table.
AltIsEmoji(t) ==
    \E k \in DOMAIN emojiReplacements :
        AttrValue(t, AltAttr) = [found |-> TRUE, value |-> emojiReplacements[k].alt]

\* C27: of an image tag holding "expand-control-image" whose alt is no
\* key of the emoji table, or which has no alt attribute, nothing is left
\* in the text postProcessMarkdown returns; an image tag whose alt is a
\* key is replaced by the glyph of that key.
C27_ControlImagesRemoved ==
    ( /\ entry = "postProcessMarkdown"
      /\ pc = "done"
      /\ Contains(input, ImgOpen)
      /\ StrCount(input, AltAttr) <= 1 ) =>
        /\ (Contains(input, ExpandControlImage) /\ ~AltIsEmoji(input)) =>
               ~Contains(md, ImgOpen)
        /\ AltIsEmoji(input) =>
               md = TrimSpace(ReplaceEmojiImg(input, AttrValue(input, AltAttr).value)) \o Newline

----------------------------------------------------------------------------
(* Properties of postProcessMarkdown's expander rules                      *)

\* C28: of one well-formed expander postProcessMarkdown returns a text
\* with exactly one "<details>" and exactly one "</details>", the second
\* behind the first.
C28_ExpanderClosed ==
    (entry = "postProcessMarkdown" /\ pc = "done" /\ Contains(input, ExpanderDiv)) =>
        /\ StrCount(md, OpenTag) = 1
        /\ StrCount(md, CloseTag) = 1
        /\ IndexFrom(md, OpenTag, 0) < IndexFrom(md, CloseTag, 0)

----------------------------------------------------------------------------
(* Properties of postProcessMarkdown's shortcode rule                      *)

\* What balanceDetailsTags returns for s.
RECURSIVE BalanceOf(_)
BalanceOf(s) ==
    IF Balanced(s) \/ LastIndex(s, CloseTag) = -1 THEN s
    ELSE BalanceOf(CutCloseTag(s, LastIndex(s, CloseTag)))

\* The text the range over textEmojis begins with, for the input s.
BeforeEmojis(s) ==
    LET triples == ReplaceDivRunsFrom(s, 3, Newline \o CloseTag \o Newline \o Newline, 0)
        pairs == ReplaceDivRunsFrom(triples, 2, Newline \o Newline, 0)
        singles == ReplaceAll(pairs, CloseDiv, << >>)
        lines == TrimLines(CollapseNewlinesFrom(singles, 0))
    IN  BalanceOf(TrimSpace(lines) \o Newline)

\* s after the entries of textEmojis from the k-th on were applied in the
\* order of the map literal.
RECURSIVE EmojisInSourceOrder(_, _)
EmojisInSourceOrder(s, k) ==
    IF k > Len(textEmojis) THEN s
    ELSE EmojisInSourceOrder(ReplaceAll(s, textEmojis[k].code, textEmojis[k].emoji), k + 1)

\* C29: whatever order the range visits the entries of textEmojis in,
\* postProcessMarkdown returns the same text for an input: the one the
\* order of the map literal gives.
C29_EmojiOrderIrrelevant ==
    (entry = "postProcessMarkdown" /\ pc = "done") =>
        md = EmojisInSourceOrder(BeforeEmojis(input), 1)

----------------------------------------------------------------------------
(* Properties of package pandoc under concurrent Cleanup                   *)

\* C30: in every interleaving of EnsureExtracted and Cleanup calls, a
\* call of EnsureExtracted that returns a nil error returns the path of
\* the binary, and the binary is on disk at the moment of the return.
C30_PathValidAtReturn ==
    [][ \A g \in DOMAIN gret :
          ( /\ ~gret[g].returned
            /\ gret'[g].returned
            /\ gret'[g].op = "EnsureExtracted"
            /\ gret'[g].err = "nil" )
          => (gret'[g].path = BinaryPath /\ disk') ]_vars

====
